---- MODULE Spec2Model ----
\* Model of modules/analysis_runner.py: the per-site wind analysis
\* (run_analysis_for_site) with its helpers compute_return_level,
\* _normalize_dataframe_columns, _load_dataframes_from_csv and _get_config_float.
\*
\* Encoding
\*   wind speeds          integers (m/s); NULL is NaN / NaT / None
\*   time values          ordinal dates YYYYDDD (year * 1000 + day of year)
\*   return periods       tenths of a year (500 is 50.0 years)
\*   Gumbel loc / scale   hundredths of m/s; return levels hundredths of m/s
\*   a DataFrame          [kind, cols, rows]: rows is a sequence of functions
\*                        from the column names to cell values
\*   a dict               a sequence of [name, df] entries in insertion order
EXTENDS Integers, Sequences, FiniteSets, TLC

VARIABLES
  site_config,          \* the site_config argument (raw configuration values)
  return_periods_arg,   \* the return_periods_years argument
  dataframes_arg,       \* the dataframes argument (None and {} are <<>>)
  site_files,           \* CSV files of site_folder, in os iteration order
  gumbel_fit,           \* what scipy's gumbel_r.fit yields per (source, variable)
  pc,                   \* position of run_analysis_for_site
  bc_mean_threshold, bc_gust_threshold, return_periods_years,
  output_dir,           \* whether figures_and_tables exists
  dataframes,           \* the assembled source collection
  df_stats, skipped_sources, df_cov,
  summary_files,        \* variable -> extreme-day summary (<<>>: not written)
  pivot_files,          \* variable -> per-year pivot ([written |-> FALSE]: none)
  annual_files,         \* <<source, variable>> -> annual maxima, where written
  df_ret, df_50,        \* return_periods_gumbel.csv / return_period_50y.csv
  log,                  \* printed warnings and errors
  progress,             \* the stages entered, in the order of their banners
  run,                  \* 1 for the first call, 2 for a second call on the same
                        \* input, 3 for a second call with other thresholds
  first_run,            \* the collection and the tables of the first call
  left_over             \* the table files earlier calls left in output_dir

vars == <<site_config, return_periods_arg, dataframes_arg, site_files, gumbel_fit,
          pc, bc_mean_threshold, bc_gust_threshold, return_periods_years,
          output_dir, dataframes, df_stats, skipped_sources, df_cov,
          summary_files, pivot_files, annual_files, df_ret, df_50, log,
          progress, run, first_run, left_over>>

\* ---------------------------------------------------------------- values

NULL == -1
BAD == -2
VarNames == {"windspeed_mean", "windspeed_gust"}

IsNull(v) == v = NULL
Range(s) == {s[i] : i \in 1..Len(s)}

RECURSIVE SeqMax(_)
SeqMax(s) ==
  IF Len(s) = 1 THEN s[1]
  ELSE LET m == SeqMax(Tail(s)) IN IF s[1] >= m THEN s[1] ELSE m

RECURSIVE SeqMin(_)
SeqMin(s) ==
  IF Len(s) = 1 THEN s[1]
  ELSE LET m == SeqMin(Tail(s)) IN IF s[1] <= m THEN s[1] ELSE m

RECURSIVE SortedSet(_)
\* the elements of a finite set of integers, ascending
SortedSet(S) ==
  IF S = {} THEN <<>>
  ELSE LET m == CHOOSE x \in S : \A y \in S : x <= y
       IN <<m>> \o SortedSet(S \ {m})

\* ------------------------------------------------------------ DataFrames

DataFrame(cols, rows) == [kind |-> "DataFrame", cols |-> cols, rows |-> rows]
NoneValue == [kind |-> "None", cols |-> {}, rows |-> <<>>]
NotAFrame == [kind |-> "other", cols |-> {}, rows |-> <<>>]

isinstance_DataFrame(df) == df.kind = "DataFrame"
\* DataFrame.empty: some axis has length 0
empty(df) == Len(df.rows) = 0 \/ df.cols = {}

\* Timestamp.year / .dt.year of an ordinal date
year(t) == t \div 1000
\* Timestamp.date(): the calendar day of the timestamp
date(t) == year(t) * 1000 + (t % 1000)

\* pd.to_datetime(errors="coerce", utc=True): unparsable becomes NaT
to_datetime(v) == IF v = BAD \/ v = NULL THEN NULL ELSE v

\* df["time"] = ...: sets (or adds) the column time
assign_time(df, src) ==
  DataFrame(df.cols \cup {"time"},
            [i \in 1..Len(df.rows) |->
               [c \in df.cols \cup {"time"} |->
                  IF c = "time" THEN to_datetime(df.rows[i][src]) ELSE df.rows[i][c]]])

\* df.rename(columns=col_map)
rename(df, from, to) ==
  DataFrame((df.cols \ {from}) \cup {to},
            [i \in 1..Len(df.rows) |->
               [c \in (df.cols \ {from}) \cup {to} |->
                  IF c = to THEN df.rows[i][from] ELSE df.rows[i][c]]])

\* (mutant) the generic fields are renamed whether or not the canonical
\* columns exist
col_map_always(df) ==
  LET a == IF "wind_speed" \in df.cols
           THEN {<<"wind_speed", "windspeed_mean">>} ELSE {}
      b == IF "wind_gust" \in df.cols
           THEN {<<"wind_gust", "windspeed_gust">>} ELSE {}
  IN a \cup b

col_map(df) ==
  LET a == IF "wind_speed" \in df.cols /\ "windspeed_mean" \notin df.cols
           THEN {<<"wind_speed", "windspeed_mean">>} ELSE {}
      b == IF "wind_gust" \in df.cols /\ "windspeed_gust" \notin df.cols
           THEN {<<"wind_gust", "windspeed_gust">>} ELSE {}
  IN a \cup b

RECURSIVE rename_all(_, _)
rename_all(df, m) ==
  IF m = {} THEN df
  ELSE LET p == CHOOSE q \in m : TRUE
       IN rename_all(rename(df, p[1], p[2]), m \ {p})

\* the orders a sort may leave: r among the rows already placed, anywhere
\* between the rows of smaller time and the rows of larger time (the default
\* sort kind, quicksort, does not fix the order of rows of equal time)
insert_sorted(done, r) ==
  LET lo == Cardinality({i \in 1..Len(done) : done[i]["time"] < r["time"]})
      hi == Cardinality({i \in 1..Len(done) : done[i]["time"] <= r["time"]})
  IN {SubSeq(done, 1, p) \o <<r>> \o SubSeq(done, p + 1, Len(done)) : p \in lo..hi}

RECURSIVE sort_non_null(_, _)
sort_non_null(placed, rest) ==
  IF rest = <<>> THEN placed
  ELSE sort_non_null(UNION {insert_sorted(d, rest[1]) : d \in placed}, Tail(rest))

\* df.sort_values("time").reset_index(drop=True): ascending, NaT rows last in
\* their original order; the set of the orders the sort may produce
sort_values(df) ==
  LET nn == SortedSet({i \in 1..Len(df.rows) : ~IsNull(df.rows[i]["time"])})
      nu == SortedSet({i \in 1..Len(df.rows) : IsNull(df.rows[i]["time"])})
      nnRows == [k \in 1..Len(nn) |-> df.rows[nn[k]]]
      nuRows == [k \in 1..Len(nu) |-> df.rows[nu[k]]]
  IN {DataFrame(df.cols, s \o nuRows) : s \in sort_non_null({<<>>}, nnRows)}

\* (mutant) the date field is preferred to the time field
normalize_date_first(df) ==
  IF "date" \in df.cols
    THEN sort_values(rename_all(assign_time(df, "date"), col_map(assign_time(df, "date"))))
  ELSE IF "time" \in df.cols
    THEN sort_values(rename_all(assign_time(df, "time"), col_map(assign_time(df, "time"))))
  ELSE {df}

\* _normalize_dataframe_columns: the tables it may return
normalize_dataframe_columns(df) ==
  IF "time" \in df.cols
    THEN sort_values(rename_all(assign_time(df, "time"), col_map(assign_time(df, "time"))))
  ELSE IF "date" \in df.cols
    THEN sort_values(rename_all(assign_time(df, "date"), col_map(assign_time(df, "date"))))
  ELSE {df}

\* ------------------------------------------------------------------ dicts

Entry(name, df) == [name |-> name, df |-> df]
Keys(d) == {d[i].name : i \in 1..Len(d)}
Get(d, name) == (CHOOSE i \in 1..Len(d) : d[i].name = name)

\* d[name] = df: replaces the value in place, or appends a new key
Put(d, name, df) ==
  IF name \in Keys(d)
    THEN [i \in 1..Len(d) |-> IF d[i].name = name THEN Entry(name, df) ELSE d[i]]
  ELSE Append(d, Entry(name, df))

\* (mutant) the filter keeps every entry
drop_empty_keep(d) == d

\* {name: df for ... if isinstance(df, pd.DataFrame) and not df.empty}
drop_empty(d) ==
  LET Keep(e) == isinstance_DataFrame(e.df) /\ ~empty(e.df) IN SelectSeq(d, Keep)

\* ---------------------------------------------------------- configuration

DEFAULT_BC_THRESHOLD == 25
DEFAULT_RETURN_PERIOD == 500

\* a raw configuration value: absent, a number (or a numeric string), a NaN,
\* or something float() rejects
Missing == [kind |-> "missing", v |-> 0, items |-> <<>>]
Num(v) == [kind |-> "num", v |-> v, items |-> <<>>]
NaNValue == [kind |-> "nan", v |-> 0, items |-> <<>>]
Text == [kind |-> "text", v |-> 0, items |-> <<>>]
\* a comma separated string / a list: items are [t |-> "num" | "nan" | "blank" | "text", v]
Str(items) == [kind |-> "str", v |-> 0, items |-> items]
List(items) == [kind |-> "list", v |-> 0, items |-> items]
NoArg == [kind |-> "None", v |-> 0, items |-> <<>>]

\* _get_config_float: float(val), the default on NaN or on any exception
get_config_float(config, key, default) ==
  LET val == config[key]
  IN IF val.kind = "num" THEN val.v ELSE default

\* float(x) of one item: a number, NaN, or ValueError
float_ok(item) == item.t \in {"num", "nan"}
float_of(item) == IF item.t = "num" THEN item.v ELSE NULL

\* lines 196-209: [raised, value]
resolve_return_periods(arg, config) ==
  IF arg.kind # "None" THEN [raised |-> FALSE, value |-> arg.items]
  ELSE LET conf_rp == config["return_periods_years"]
       IN IF conf_rp.kind = "str"
            THEN LET Kept(x) == x.t # "blank"
                     kept == SelectSeq(conf_rp.items, Kept)
                 IN IF \A i \in 1..Len(kept) : float_ok(kept[i])
                      THEN [raised |-> FALSE,
                            value |-> [i \in 1..Len(kept) |-> float_of(kept[i])]]
                    ELSE [raised |-> FALSE, value |-> <<DEFAULT_RETURN_PERIOD>>]
          ELSE IF conf_rp.kind = "list"
            THEN IF \A i \in 1..Len(conf_rp.items) : float_ok(conf_rp.items[i])
                   THEN [raised |-> FALSE,
                         value |-> [i \in 1..Len(conf_rp.items) |-> float_of(conf_rp.items[i])]]
                 ELSE [raised |-> TRUE, value |-> <<>>]
          ELSE [raised |-> FALSE, value |-> <<DEFAULT_RETURN_PERIOD>>]

\* ------------------------------------------------------------ CSV loading

\* (mutant) the generic noaa prefix is tried before the station prefixes
prefix_mappings_generic_first ==
  << <<<<"meteostat", "1">>, "meteostat1">>,
     <<<<"meteostat", "2">>, "meteostat2">>,
     <<<<"noaa">>, "noaa">>,
     <<<<"noaa", "_station1">>, "noaa_station1">>,
     <<<<"noaa", "_station2">>, "noaa_station2">>,
     <<<<"openmeteo">>, "openmeteo">>,
     <<<<"nasa_power">>, "nasa_power">>,
     <<<<"era5", "_daily">>, "era5">>,
     <<<<"visualcrossing">>, "visualcrossing">> >>

\* file stems are sequences of name parts, so that startswith is a prefix test
prefix_mappings ==
  << <<<<"meteostat", "1">>, "meteostat1">>,
     <<<<"meteostat", "2">>, "meteostat2">>,
     <<<<"noaa", "_station1">>, "noaa_station1">>,
     <<<<"noaa", "_station2">>, "noaa_station2">>,
     <<<<"noaa">>, "noaa">>,
     <<<<"openmeteo">>, "openmeteo">>,
     <<<<"nasa_power">>, "nasa_power">>,
     <<<<"era5", "_daily">>, "era5">>,
     <<<<"visualcrossing">>, "visualcrossing">> >>

startswith(stem, prefix) ==
  Len(stem) >= Len(prefix) /\ SubSeq(stem, 1, Len(prefix)) = prefix

\* the key of the first prefix that matches, "" when none does
prefix_key(stem) ==
  LET hits == {i \in 1..Len(prefix_mappings) : startswith(stem, prefix_mappings[i][1])}
  IN IF hits = {} THEN ""
     ELSE prefix_mappings[CHOOSE i \in hits : \A j \in hits : i <= j][2]

File(stem, is_csv, readable, df) ==
  [stem |-> stem, is_csv |-> is_csv, readable |-> readable, df |-> df]

RECURSIVE load_from(_, _)
\* the loop of _load_dataframes_from_csv over the files left; acc is the set of
\* the dicts the files read so far may have produced
load_from(files, acc) ==
  IF files = <<>> THEN acc
  ELSE LET f == files[1]
           key == prefix_key(f.stem)
       IN IF ~f.is_csv \/ key = "" \/ ~f.readable
            THEN load_from(Tail(files), acc)
          ELSE load_from(Tail(files),
                         {Put(d, key, n) : d \in acc, n \in normalize_dataframe_columns(f.df)})

load_dataframes_from_csv(files) == load_from(files, {<<>>})

RECURSIVE normalize_provided(_, _)
\* lines 220-230
normalize_provided(entries, acc) ==
  IF entries = <<>> THEN acc
  ELSE LET e == entries[1]
       IN IF e.df.kind = "None" \/ ~isinstance_DataFrame(e.df) \/ empty(e.df)
            THEN normalize_provided(Tail(entries), acc)
          ELSE normalize_provided(Tail(entries),
                 {Put(d, e.name, n) : d \in acc, n \in normalize_dataframe_columns(e.df)})

\* f"era5_daily_{site_name}.csv"
era5_daily_stem == <<"era5", "_daily", "_site">>

\* (mutant) the daily file is never read: the table of era5 stays
force_era5_daily_keep(d, files) == {d}

\* lines 255-266: the daily file replaces the era5 table when it can be read
force_era5_daily(d, files) ==
  LET daily == {i \in 1..Len(files) : files[i].stem = era5_daily_stem /\ files[i].is_csv}
  IN IF "era5" \in Keys(d) /\ daily # {}
       THEN LET f == files[CHOOSE i \in daily : TRUE]
            IN IF f.readable
                 THEN {Put(d, "era5", n) : n \in normalize_dataframe_columns(f.df)}
               ELSE {d}
     ELSE {d}

RECURSIVE csv_prints(_)
\* lines 155-159: one error line per recognised file that cannot be read
csv_prints(files) ==
  IF files = <<>> THEN <<>>
  ELSE IF files[1].is_csv /\ prefix_key(files[1].stem) # "" /\ ~files[1].readable
    THEN <<"Failed to read CSV">> \o csv_prints(Tail(files))
  ELSE csv_prints(Tail(files))

\* lines 262-266: the error line of a daily file that cannot be read
era5_prints(d, files) ==
  LET daily == {i \in 1..Len(files) : files[i].stem = era5_daily_stem /\ files[i].is_csv}
  IN IF "era5" \in Keys(d) /\ daily # {} /\ ~files[CHOOSE i \in daily : TRUE].readable
       THEN <<"Error reading daily file">>
     ELSE <<>>

\* lines 218-272: [stopped, dataframes, printed] for each way the sorts may fall
load_data(arg, files) ==
  LET loaded == IF arg # <<>> THEN normalize_provided(arg, {<<>>})
                ELSE load_dataframes_from_csv(files)
      read_errors == IF arg # <<>> THEN <<>> ELSE csv_prints(files)
      Step(d) ==
        IF d = <<>>
          THEN {[stopped |-> TRUE, dataframes |-> <<>>,
                 printed |-> read_errors \o <<"No data found">>]}
        ELSE IF drop_empty(d) = <<>>
          THEN {[stopped |-> TRUE, dataframes |-> <<>>,
                 printed |-> read_errors \o <<"All DataFrames are empty">>]}
        ELSE {[stopped |-> FALSE, dataframes |-> drop_empty(e),
               printed |-> read_errors \o era5_prints(drop_empty(d), files)] :
                e \in force_era5_daily(drop_empty(d), files)}
  IN UNION {Step(d) : d \in loaded}

\* ------------------------------------------------------------ series

\* the row numbers of df, in order, whose columns cs are all non-null:
\* df.dropna(subset=cs) keeps the index of df
dropna(df, cs) ==
  SortedSet({i \in 1..Len(df.rows) : \A c \in cs : ~IsNull(df.rows[i][c])})

\* df.dropna(subset=["time"]).set_index("time")[varname].astype(float):
\* the (time, value) pairs of the rows with a time
series_at(df, idx, varname) ==
  [k \in 1..Len(idx) |->
     [time |-> df.rows[idx[k]]["time"], value |-> df.rows[idx[k]][varname]]]

series_of(df, varname) == series_at(df, dropna(df, {"time"}), varname)

\* Series.dropna()
series_dropna(series) ==
  LET Kept(e) == ~IsNull(e.value) IN SelectSeq(series, Kept)

\* rows of a year's group
year_values(s, y) ==
  LET InYear(e) == year(e.time) = y
      g == SelectSeq(s, InYear)
  IN [k \in 1..Len(g) |-> g[k].value]

year_max_rows(s, years) ==
  [k \in 1..Len(years) |->
     [Year |-> years[k], Max_value |-> SeqMax(year_values(s, years[k]))]]

\* s.groupby(s.index.year).max(): one [Year, Max_value] per year, ascending
groupby_year_max(s) ==
  year_max_rows(s, SortedSet({year(s[k].time) : k \in 1..Len(s)}))

\* ------------------------------------------------------ return levels

None == [kind |-> "None", v |-> 0]
Level(v) == [kind |-> "num", v |-> v]
NaNLevel == [kind |-> "nan", v |-> 0]
NegInf == [kind |-> "-inf", v |-> 0]
Raised == [kind |-> "raised", v |-> 0]

min_years_default == 10

\* -ln(-ln(1 - 1/T)) in 1/10000, for the return periods T (tenths of a year)
\* the model uses: 2, 10, 50, 100 and 200 years
reduced_variate(T) ==
  CASE T = 20 -> 3665
    [] T = 100 -> 22504
    [] T = 500 -> 39019
    [] T = 1000 -> 46001
    [] T = 2000 -> 52958

\* np.round(x / 10000, 0) of an integer ratio: half to even
round_ratio(num, den) ==
  LET q == num \div den
      r == num % den
  IN IF 2 * r > den \/ (2 * r = den /\ q % 2 = 1) THEN q + 1 ELSE q

\* (mutant) the quantile of the Gumbel distribution of minima
return_level_of_min(fit, T) ==
  IF T = NULL THEN NaNLevel
  ELSE IF T = 0 THEN Raised
  ELSE IF T < 10 THEN NaNLevel
  ELSE IF T = 10 THEN NegInf
  ELSE Level(round_ratio(fit.loc * 10000 - fit.scale * reduced_variate(T), 10000))

\* lines 78-80 for a fit (loc, scale): p = 1 - 1/T, gumbel_r.ppf(p), rounding.
\* T = 0 divides by zero; p outside [0, 1] gives NaN; p = 0 gives -inf
return_level_of(fit, T) ==
  IF T = NULL THEN NaNLevel
  ELSE IF T = 0 THEN Raised
  ELSE IF T < 10 THEN NaNLevel
  ELSE IF T = 10 THEN NegInf
  ELSE Level(round_ratio(fit.loc * 10000 + fit.scale * reduced_variate(T), 10000))

\* (mutant) the exception is printed and raised again
except_Exception_reraise(rl) ==
  IF rl = Raised THEN [value |-> Raised, printed |-> <<"Gumbel fit failed">>]
  ELSE [value |-> rl, printed |-> <<>>]

\* lines 81-83
except_Exception(rl) ==
  IF rl = Raised THEN [value |-> None, printed |-> <<"Gumbel fit failed">>]
  ELSE [value |-> rl, printed |-> <<>>]

\* (mutant) the fit outside try / except
try_fit_unguarded(fit, T) ==
  [value |-> IF fit.raises THEN Raised ELSE return_level_of(fit, T), printed |-> <<>>]

\* lines 75-83: the fit and the quantile inside try / except
try_fit(fit, T) ==
  except_Exception(IF fit.raises THEN Raised ELSE return_level_of(fit, T))

annual_values(annual_max) == [k \in 1..Len(annual_max) |-> annual_max[k].Max_value]

\* (mutant) the gate also blocks a series of exactly min_years years
gate_and_fit_le(annual_max, T, min_years, fits) ==
  IF Len(annual_max) <= min_years
    THEN [value |-> None, printed |-> <<"Series too short">>]
  ELSE try_fit(fits[annual_values(annual_max)], T)

\* lines 68-83: the gate on the number of years, then the fit
gate_and_fit(annual_max, T, min_years, fits) ==
  IF Len(annual_max) < min_years
    THEN [value |-> None, printed |-> <<"Series too short">>]
  ELSE try_fit(fits[annual_values(annual_max)], T)

\* lines 61-83, s being series.dropna()
return_level_of_clean(s, T, min_years, fits) ==
  IF s = <<>> THEN [value |-> None, printed |-> <<>>]
  ELSE gate_and_fit(groupby_year_max(s), T, min_years, fits)

\* compute_return_level(series, return_period_years, min_years); fits maps
\* annual_max.values to what gumbel_r.fit yields on them: [value, printed]
compute_return_level(series, T, min_years, fits) ==
  IF series = <<>> THEN [value |-> None, printed |-> <<>>]
  ELSE return_level_of_clean(series_dropna(series), T, min_years, fits)

\* (mutant) the annual maxima are exported only when the fit can be tried
export_annual_max_gated(series) ==
  IF series_dropna(series) = <<>> THEN <<>>
  ELSE IF Len(groupby_year_max(series_dropna(series))) < min_years_default THEN <<>>
  ELSE groupby_year_max(series_dropna(series))

\* export_annual_max: the table written, <<>> when nothing is written
export_annual_max(series) ==
  IF series_dropna(series) = <<>> THEN <<>>
  ELSE groupby_year_max(series_dropna(series))

\* -------------------------------------------------- descriptive statistics

MIN_STATS_VALUES == 5

column_values(df, idx, c) == [k \in 1..Len(idx) |-> df.rows[idx[k]][c]]

\* (mutant) a source of exactly 5 values is skipped
stats_skipped_le(df) ==
  "windspeed_mean" \notin df.cols
    \/ Len(dropna(df, {"windspeed_mean"})) <= MIN_STATS_VALUES

\* line 283
stats_skipped(df) ==
  "windspeed_mean" \notin df.cols
    \/ Len(dropna(df, {"windspeed_mean"})) < MIN_STATS_VALUES

\* lines 287-302: count, min and max of describe() (the mean, the standard
\* deviation and the percentiles are real numbers and are left out)
describe(name, v) ==
  [Source |-> name, count |-> Len(v), min |-> SeqMin(v), max |-> SeqMax(v)]

stats_row(name, df) ==
  describe(name, column_values(df, dropna(df, {"windspeed_mean"}), "windspeed_mean"))

\* one source of the loop, rest being what the later sources give
stats_step(e, rest) ==
  IF stats_skipped(e.df)
    THEN [stats_rows |-> rest.stats_rows,
          skipped_sources |-> <<e.name>> \o rest.skipped_sources]
  ELSE [stats_rows |-> <<stats_row(e.name, e.df)>> \o rest.stats_rows,
        skipped_sources |-> rest.skipped_sources]

RECURSIVE descriptive_stats(_)
\* lines 279-302: [stats_rows, skipped_sources]
descriptive_stats(d) ==
  IF d = <<>> THEN [stats_rows |-> <<>>, skipped_sources |-> <<>>]
  ELSE stats_step(d[1], descriptive_stats(Tail(d)))

\* ---------------------------------------------------------------- coverage

\* (mutant) the values counted over all the rows of the table
coverage_pct_all_rows(df, idx, c) ==
  IF c \in df.cols
    THEN round_ratio(1000 * Cardinality({i \in 1..Len(df.rows) : ~IsNull(df.rows[i][c])}),
                     Len(idx))
  ELSE NULL

\* Series.notna().mean() * 100.0 rounded to 1 decimal, in tenths of a percent
coverage_pct(df, idx, c) ==
  IF c \in df.cols
    THEN round_ratio(1000 * Cardinality({k \in 1..Len(idx) : ~IsNull(df.rows[idx[k]][c])}),
                     Len(idx))
  ELSE NULL

coverage_row_at(name, df, idx) ==
  [Source |-> name,
   First_date |-> date(SeqMin(column_values(df, idx, "time"))),
   Last_date |-> date(SeqMax(column_values(df, idx, "time"))),
   Row_count |-> Len(idx),
   Mean_wind_coverage |-> coverage_pct(df, idx, "windspeed_mean"),
   Gust_coverage |-> coverage_pct(df, idx, "windspeed_gust")]

\* (mutant) the rows without time are not removed
coverage_row_all(name, df) == coverage_row_at(name, df, SortedSet(1..Len(df.rows)))

\* lines 342-369
coverage_row(name, df) == coverage_row_at(name, df, dropna(df, {"time"}))

RECURSIVE coverage_unskipped(_)
\* (mutant) the sources skipped by the statistics get no coverage row
coverage_unskipped(d) ==
  IF d = <<>> THEN <<>>
  ELSE IF stats_skipped(d[1].df) THEN coverage_unskipped(Tail(d))
  ELSE IF "time" \notin d[1].df.cols THEN coverage_unskipped(Tail(d))
  ELSE IF dropna(d[1].df, {"time"}) = <<>> THEN coverage_unskipped(Tail(d))
  ELSE <<coverage_row(d[1].name, d[1].df)>> \o coverage_unskipped(Tail(d))

RECURSIVE coverage_zero_rows(_)
\* (mutant) a source without a dated row is reported with a coverage of zero
coverage_zero_rows(d) ==
  IF d = <<>> THEN <<>>
  ELSE IF "time" \notin d[1].df.cols \/ dropna(d[1].df, {"time"}) = <<>>
    THEN <<[Source |-> d[1].name, First_date |-> NULL, Last_date |-> NULL,
            Row_count |-> 0, Mean_wind_coverage |-> 0, Gust_coverage |-> 0]>>
           \o coverage_zero_rows(Tail(d))
  ELSE <<coverage_row(d[1].name, d[1].df)>> \o coverage_zero_rows(Tail(d))

RECURSIVE coverage(_)
\* lines 337-369
coverage(d) ==
  IF d = <<>> THEN <<>>
  ELSE IF "time" \notin d[1].df.cols THEN coverage(Tail(d))
  ELSE IF dropna(d[1].df, {"time"}) = <<>> THEN coverage(Tail(d))
  ELSE <<coverage_row(d[1].name, d[1].df)>> \o coverage(Tail(d))

\* ------------------------------------------------------------ extreme days

\* (mutant) the threshold itself counted as exceeding
extreme_rows_ge(df, varname, bc_threshold) ==
  LET d == dropna(df, {"time", varname})
      Exceeds(i) == df.rows[i][varname] >= bc_threshold
  IN SelectSeq(d, Exceeds)

\* d[d[varname] > bc_threshold]: the row numbers of the exceeding days
extreme_rows(df, varname, bc_threshold) ==
  LET d == dropna(df, {"time", varname})
      Exceeds(i) == df.rows[i][varname] > bc_threshold
  IN SelectSeq(d, Exceeds)

\* Series.idxmax(): the first row holding the maximum
first_at(df, idx, varname, m) ==
  idx[CHOOSE k \in 1..Len(idx) :
        /\ df.rows[idx[k]][varname] = m
        /\ \A j \in 1..(k - 1) : df.rows[idx[j]][varname] # m]

idxmax(df, idx, varname) ==
  first_at(df, idx, varname, SeqMax(column_values(df, idx, varname)))

\* (mutant) the index label of the maximum is reported in place of its date
summary_of_index(name, df, varname, bc_threshold, extreme) ==
  IF extreme = <<>>
    THEN [Source |-> name, Variable |-> varname, BC_threshold |-> bc_threshold,
          Nb_extreme_days |-> 0, Max_extreme_value |-> NULL, Date_max_value |-> NULL]
  ELSE [Source |-> name, Variable |-> varname, BC_threshold |-> bc_threshold,
        Nb_extreme_days |-> Len(extreme),
        Max_extreme_value |-> SeqMax(column_values(df, extreme, varname)),
        Date_max_value |-> idxmax(df, extreme, varname)]

\* lines 760-788
summary_of(name, df, varname, bc_threshold, extreme) ==
  IF extreme = <<>>
    THEN [Source |-> name, Variable |-> varname, BC_threshold |-> bc_threshold,
          Nb_extreme_days |-> 0, Max_extreme_value |-> NULL, Date_max_value |-> NULL]
  ELSE [Source |-> name, Variable |-> varname, BC_threshold |-> bc_threshold,
        Nb_extreme_days |-> Len(extreme),
        Max_extreme_value |-> SeqMax(column_values(df, extreme, varname)),
        Date_max_value |-> date(df.rows[idxmax(df, extreme, varname)]["time"])]

summary_row(name, df, varname, bc_threshold) ==
  summary_of(name, df, varname, bc_threshold, extreme_rows(df, varname, bc_threshold))

\* lines 791-800: extreme.groupby("year").size()
yearly_counts(name, df, varname, extreme, years) ==
  [k \in 1..Len(years) |->
     [Source |-> name, Variable |-> varname, Year |-> years[k],
      Nb_extreme_days |->
        Cardinality({j \in 1..Len(extreme) :
                       year(df.rows[extreme[j]]["time"]) = years[k]})]]

yearly_of(name, df, varname, extreme) ==
  yearly_counts(name, df, varname, extreme,
    SortedSet({year(df.rows[extreme[k]]["time"]) : k \in 1..Len(extreme)}))

yearly_rows(name, df, varname, bc_threshold) ==
  yearly_of(name, df, varname, extreme_rows(df, varname, bc_threshold))

\* line 750 and line 754: the sources the loop passes over
extreme_skipped(df, varname) ==
  \/ varname \notin df.cols
  \/ "time" \notin df.cols
  \/ dropna(df, {"time", varname}) = <<>>

\* (mutant) a source without exceedance gets no summary row
extreme_step_omit(e, varname, bc_threshold, rest) ==
  IF extreme_skipped(e.df, varname) \/ extreme_rows(e.df, varname, bc_threshold) = <<>>
    THEN rest
  ELSE [summary_rows |->
          <<summary_row(e.name, e.df, varname, bc_threshold)>> \o rest.summary_rows,
        per_year_rows |->
          yearly_rows(e.name, e.df, varname, bc_threshold) \o rest.per_year_rows]

\* one source of the loop, rest being what the later sources give
extreme_step(e, varname, bc_threshold, rest) ==
  IF extreme_skipped(e.df, varname) THEN rest
  ELSE [summary_rows |->
          <<summary_row(e.name, e.df, varname, bc_threshold)>> \o rest.summary_rows,
        per_year_rows |->
          yearly_rows(e.name, e.df, varname, bc_threshold) \o rest.per_year_rows]

RECURSIVE extreme_loop(_, _, _)
\* lines 749-800: [summary_rows, per_year_rows]
extreme_loop(d, varname, bc_threshold) ==
  IF d = <<>> THEN [summary_rows |-> <<>>, per_year_rows |-> <<>>]
  ELSE extreme_step(d[1], varname, bc_threshold,
                    extreme_loop(Tail(d), varname, bc_threshold))

RECURSIVE SeqSum(_)
SeqSum(s) == IF s = <<>> THEN 0 ELSE s[1] + SeqSum(Tail(s))

NoPivot == [written |-> FALSE, Year |-> <<>>, Source |-> {}, cell |-> <<>>]

\* (mutant) no fill_value: an absent (year, source) pair stays NaN
aggfunc_sum_nofill(hits, fill_value) ==
  IF hits = <<>> THEN NULL
  ELSE SeqSum([k \in 1..Len(hits) |-> hits[k].Nb_extreme_days])

\* pivot_table(index="Year", columns="Source", values="Nb_extreme_days",
\*             aggfunc="sum", fill_value=0).sort_index()
aggfunc_sum(hits, fill_value) ==
  IF hits = <<>> THEN fill_value
  ELSE SeqSum([k \in 1..Len(hits) |-> hits[k].Nb_extreme_days])

pivot_cell(per_year_rows, y, src, fill_value) ==
  LET Hit(r) == r.Year = y /\ r.Source = src
  IN aggfunc_sum(SelectSeq(per_year_rows, Hit), fill_value)

pivot_of(per_year_rows, years, sources, fill_value) ==
  [written |-> TRUE, Year |-> years, Source |-> sources,
   cell |-> [y \in Range(years) |->
               [src \in sources |-> pivot_cell(per_year_rows, y, src, fill_value)]]]

pivot_table(per_year_rows, fill_value) ==
  pivot_of(per_year_rows,
           SortedSet({per_year_rows[k].Year : k \in 1..Len(per_year_rows)}),
           {per_year_rows[k].Source : k \in 1..Len(per_year_rows)},
           fill_value)

\* analyze_extreme_days: [summary, pivot] as written (lines 802-833)
extreme_tables(r) ==
  [summary |-> r.summary_rows,
   pivot |-> IF r.per_year_rows = <<>> THEN NoPivot
             ELSE pivot_table(r.per_year_rows, 0)]

analyze_extreme_days(d, varname, bc_threshold) ==
  extreme_tables(extreme_loop(d, varname, bc_threshold))

\* (mutant) the year column is added to the tables of the collection
after_extreme_days_inplace(d, varname) ==
  [i \in 1..Len(d) |->
     IF extreme_skipped(d[i].df, varname) THEN d[i]
     ELSE Entry(d[i].name,
                DataFrame(d[i].df.cols \cup {"year"},
                          [k \in 1..Len(d[i].df.rows) |->
                             [c \in d[i].df.cols \cup {"year"} |->
                                IF c = "year" THEN year(d[i].df.rows[k]["time"])
                                ELSE d[i].df.rows[k][c]]]))]

\* lines 753-758: the collection after the stage; the year column is added to
\* a copy of the rows kept by dropna, never to a table of the collection
after_extreme_days(d, varname) == d

\* ------------------------------------------------------ return-level stage

threshold_of(varname, bc_mean, bc_gust) ==
  IF varname = "windspeed_mean" THEN bc_mean ELSE bc_gust

\* lines 894-904 for one series: one call of compute_return_level per period
period_results(series, periods, fits) ==
  [k \in 1..Len(periods) |->
     compute_return_level(series, periods[k], min_years_default, fits)]

\* (mutant) a row only where a level was produced
period_rows_dropna(name, varname, periods, results, bc_threshold) ==
  LET Has(r) == r.Return_level # None
  IN SelectSeq([k \in 1..Len(periods) |->
                  [Source |-> name, Variable |-> varname, Return_period |-> periods[k],
                   Return_level |-> results[k].value, BC_threshold |-> bc_threshold]],
               Has)

period_rows(name, varname, periods, results, bc_threshold) ==
  [k \in 1..Len(periods) |->
     [Source |-> name, Variable |-> varname, Return_period |-> periods[k],
      Return_level |-> results[k].value, BC_threshold |-> bc_threshold]]

RECURSIVE period_prints(_)
period_prints(results) ==
  IF results = <<>> THEN <<>>
  ELSE results[1].printed \o period_prints(Tail(results))

\* lines 885-904 for one series
series_step(name, v, series, periods, results, bc_threshold, rest) ==
  [rows |-> period_rows(name, v, periods, results, bc_threshold) \o rest.rows,
   annual |-> <<[Source |-> name, Variable |-> v,
                 table |-> export_annual_max(series)]>> \o rest.annual,
   printed |-> period_prints(results) \o rest.printed]

variable_step(name, df, v, series, periods, bc_mean, bc_gust, fits, rest) ==
  series_step(name, v, series, periods, period_results(series, periods, fits),
              threshold_of(v, bc_mean, bc_gust), rest)

RECURSIVE variable_loop(_, _, _, _, _, _, _)
\* lines 878-904 for one source: the two variables in order
variable_loop(name, df, varnames, periods, bc_mean, bc_gust, fits) ==
  IF varnames = <<>> THEN [rows |-> <<>>, annual |-> <<>>, printed |-> <<>>]
  ELSE IF varnames[1] \notin df.cols
    THEN variable_loop(name, df, Tail(varnames), periods, bc_mean, bc_gust, fits)
  ELSE variable_step(name, df, varnames[1], series_of(df, varnames[1]), periods,
                     bc_mean, bc_gust, fits,
                     variable_loop(name, df, Tail(varnames), periods, bc_mean,
                                   bc_gust, fits))

concat_results(one, rest) ==
  [rows |-> one.rows \o rest.rows,
   annual |-> one.annual \o rest.annual,
   printed |-> one.printed \o rest.printed]

RECURSIVE return_levels_gust_first(_, _, _, _, _)
\* (mutant) the gust series of a source is treated before its mean series
return_levels_gust_first(d, periods, bc_mean, bc_gust, fits) ==
  IF d = <<>> THEN [rows |-> <<>>, annual |-> <<>>, printed |-> <<>>]
  ELSE IF "time" \notin d[1].df.cols
    THEN return_levels_gust_first(Tail(d), periods, bc_mean, bc_gust, fits)
  ELSE concat_results(
         variable_loop(d[1].name, d[1].df, <<"windspeed_gust", "windspeed_mean">>,
                       periods, bc_mean, bc_gust, fits),
         return_levels_gust_first(Tail(d), periods, bc_mean, bc_gust, fits))

RECURSIVE return_levels(_, _, _, _, _)
\* lines 869-904: [rows, annual, printed]
return_levels(d, periods, bc_mean, bc_gust, fits) ==
  IF d = <<>> THEN [rows |-> <<>>, annual |-> <<>>, printed |-> <<>>]
  ELSE IF "time" \notin d[1].df.cols
    THEN return_levels(Tail(d), periods, bc_mean, bc_gust, fits)
  ELSE concat_results(
         variable_loop(d[1].name, d[1].df, <<"windspeed_mean", "windspeed_gust">>,
                       periods, bc_mean, bc_gust, fits),
         return_levels(Tail(d), periods, bc_mean, bc_gust, fits))

\* lines 913-916: the rows of the 50-year file
rows_50y(rows, periods) ==
  IF \E k \in 1..Len(periods) : periods[k] = 500
    THEN LET Is50(r) == r.Return_period = 500 IN SelectSeq(rows, Is50)
  ELSE <<>>

\* ------------------------------------------------------------------ inputs

MaxRows == 3
MaxYears == 11
FirstYear == 2001

Row(t, m, g) == [time |-> t, windspeed_mean |-> m, windspeed_gust |-> g]
FullCols == {"time", "windspeed_mean", "windspeed_gust"}

\* days around the default threshold, in two years, with an unparsable time
\* and a missing value
RowPool ==
  { Row(2001001, 26, 30), Row(2001002, 30, 25), Row(2002001, 30, NULL),
    Row(2002002, 25, 26), Row(BAD, 40, 40), Row(2000001, NULL, 20) }

ShortTables ==
  {DataFrame(FullCols, rows) : rows \in UNION {[1..k -> RowPool] : k \in 0..MaxRows}}

\* one row per year for n years from FirstYear, the gust 5 m/s above the mean
YearRows(n) ==
  [k \in 1..n |-> Row((FirstYear + k - 1) * 1000 + 1, 18 + (k % 4), 23 + (k % 4))]

\* n years; tail is "plain", or has the mean of the last year missing, or a
\* second larger day in the first year, or a day without time
LongTable(n, tail) ==
  DataFrame(FullCols,
    CASE tail = "plain" -> YearRows(n)
      [] tail = "null_year" ->
           [YearRows(n) EXCEPT ![n] = Row(YearRows(n)[n]["time"], NULL, 30)]
      [] tail = "two_days" -> <<Row(FirstYear * 1000 + 2, 28, 20)>> \o YearRows(n)
      [] tail = "no_time" -> YearRows(n) \o <<Row(NULL, 50, 50)>>)

LongTables ==
  {LongTable(n, tail) : n \in {7, 9, 10, MaxYears},
                        tail \in {"plain", "null_year", "two_days", "no_time"}}

\* what a second source may be
OtherTables ==
  { NoneValue, NotAFrame, DataFrame(FullCols, <<>>),
    DataFrame({"time", "windspeed_mean"},
              <<[time |-> 2001001, windspeed_mean |-> 27],
                [time |-> 2003001, windspeed_mean |-> 31]>>),
    DataFrame({"windspeed_mean", "windspeed_gust"},
              <<[windspeed_mean |-> 30, windspeed_gust |-> 30]>>),
    DataFrame({"date", "wind_speed", "wind_gust"},
              <<[date |-> 2002005, wind_speed |-> 28, wind_gust |-> 33],
                [date |-> 2001004, wind_speed |-> 24, wind_gust |-> 26]>>),
    DataFrame(FullCols, <<Row(2001001, NULL, 27), Row(2001002, NULL, 24)>>),
    LongTable(10, "plain") }

\* the dataframes argument: one source, or two in either order
One(primary) == {<<Entry("meteostat1", t)>> : t \in primary}
Two(primary) ==
  {<<Entry("meteostat1", t), Entry("noaa", o)>> : t \in primary, o \in OtherTables}
    \cup {<<Entry("noaa", o), Entry("meteostat1", t)>> : t \in primary, o \in OtherTables}

DefaultConfig ==
  [building_code_windspeed_mean_50y |-> Missing,
   building_code_windspeed_gust_50y |-> Missing,
   return_periods_years |-> Missing]

\* building code thresholds no wind of the inputs exceeds
HighConfig ==
  [DefaultConfig EXCEPT !.building_code_windspeed_mean_50y = Num(99),
                        !.building_code_windspeed_gust_50y = Num(99)]

Configs ==
  { DefaultConfig,
    [DefaultConfig EXCEPT !.building_code_windspeed_mean_50y = Num(29),
                          !.building_code_windspeed_gust_50y = NaNValue],
    [DefaultConfig EXCEPT !.building_code_windspeed_mean_50y = Text,
                          !.building_code_windspeed_gust_50y = Num(26),
                          !.return_periods_years =
                             Str(<<[t |-> "num", v |-> 500], [t |-> "blank", v |-> 0],
                                   [t |-> "num", v |-> 1000]>>)] }

\* return_periods_years of the configuration: an empty string, a string that
\* does not parse, strings and lists with a NaN or a non-numeric element
PeriodConfigs ==
  { [DefaultConfig EXCEPT !.return_periods_years = c] :
      c \in { Str(<<>>),
              Str(<<[t |-> "text", v |-> 0], [t |-> "num", v |-> 1000]>>),
              Str(<<[t |-> "num", v |-> 500], [t |-> "nan", v |-> 0]>>),
              List(<<[t |-> "num", v |-> 1000], [t |-> "num", v |-> 500]>>),
              List(<<[t |-> "num", v |-> 500], [t |-> "text", v |-> 0]>>),
              List(<<[t |-> "nan", v |-> 0]>>),
              NaNValue, Text } }

PeriodArgs ==
  { NoArg, List(<<500>>), List(<<20, 500, 1000>>), List(<<1000, 100>>),
    List(<<10, 500>>), List(<<5, 0>>), List(<<-10, 2000>>), List(<<500, 500>>),
    List(<<>>) }

\* three days of one date with different values
TiedTable ==
  DataFrame(FullCols, <<Row(2001001, 26, 30), Row(2001001, 30, 26), Row(2001001, 30, NULL)>>)

SmallTable == DataFrame(FullCols, <<Row(2001001, 26, 30), Row(2002001, 24, 31)>>)

Folders ==
  { <<>>,
    <<File(era5_daily_stem, TRUE, TRUE, SmallTable)>>,
    <<File(era5_daily_stem, TRUE, FALSE, SmallTable)>>,
    <<File(era5_daily_stem, TRUE, TRUE, DataFrame(FullCols, <<>>))>>,
    <<File(<<"noaa", "_station1", "_site">>, TRUE, TRUE, LongTable(10, "plain")),
      File(<<"noaa", "_site">>, TRUE, FALSE, SmallTable),
      File(<<"notes">>, TRUE, TRUE, SmallTable),
      File(<<"openmeteo", "_site">>, FALSE, TRUE, SmallTable)>> }

FolderArgs ==
  { <<>>, <<Entry("era5", LongTable(10, "two_days"))>>,
    <<Entry("era5", NoneValue), Entry("noaa", SmallTable)>>,
    <<Entry("noaa", NoneValue), Entry("era5", DataFrame(FullCols, <<>>))>> }

\* what gumbel_r.fit may yield: an exception, or a location and a scale > 0
FitOutcomes ==
  { [raises |-> TRUE, loc |-> 0, scale |-> 0],
    [raises |-> FALSE, loc |-> 2000, scale |-> 150],
    [raises |-> FALSE, loc |-> 1950, scale |-> 1] }

\* the annual maxima the run may hand to gumbel_r.fit
FitDomain(arg, files) ==
  LET values(df, v) ==
        LET a == groupby_year_max(series_dropna(series_of(df, v)))
        IN [k \in 1..Len(a) |-> a[k].Max_value]
      of_df(df) ==
        IF "time" \in df.cols THEN {values(df, v) : v \in VarNames \cap df.cols} ELSE {}
      of_dict(d) == UNION {of_df(d[i].df) : i \in 1..Len(d)}
      all == UNION {of_dict(r.dataframes) : r \in load_data(arg, files)}
  IN {a \in all : Len(a) >= min_years_default}

Inputs ==
  [config : Configs, periods : {NoArg}, arg : One(ShortTables), files : {<<>>}]
    \cup [config : {DefaultConfig}, periods : {NoArg},
          arg : Two({DataFrame(FullCols, <<r>>) : r \in RowPool}), files : {<<>>}]
    \cup [config : {DefaultConfig}, periods : PeriodArgs,
          arg : One(LongTables), files : {<<>>}]
    \cup [config : {DefaultConfig}, periods : {NoArg, List(<<20, 500, 1000>>)},
          arg : Two({LongTable(10, "two_days"), LongTable(7, "two_days")}),
          files : {<<>>}]
    \cup [config : {DefaultConfig}, periods : {NoArg}, arg : FolderArgs, files : Folders]
    \cup [config : {DefaultConfig}, periods : {NoArg},
          arg : One({LongTable(5, "plain"), LongTable(5, "null_year"),
                     LongTable(4, "no_time")})
                  \cup Two({LongTable(5, "plain"), LongTable(5, "null_year")}),
          files : {<<>>}]
    \cup [config : {DefaultConfig}, periods : {NoArg},
          arg : One({TiedTable}) \cup Two({TiedTable}), files : {<<>>}]
    \cup [config : PeriodConfigs, periods : {NoArg},
          arg : One({SmallTable, LongTable(10, "plain")}), files : {<<>>}]

\* ------------------------------------------------------------ the run

\* before a second call: nothing kept of a first one
NoRun == [dataframes |-> <<>>, tables |-> <<>>]

Init ==
  /\ \E in \in Inputs :
       /\ site_config = in.config
       /\ return_periods_arg = in.periods
       /\ dataframes_arg = in.arg
       /\ site_files = in.files
       /\ gumbel_fit \in [FitDomain(in.arg, in.files) -> FitOutcomes]
  /\ pc = "start"
  /\ bc_mean_threshold = NULL
  /\ bc_gust_threshold = NULL
  /\ return_periods_years = <<>>
  /\ output_dir = FALSE
  /\ dataframes = <<>>
  /\ df_stats = <<>>
  /\ skipped_sources = <<>>
  /\ df_cov = <<>>
  /\ summary_files = [v \in VarNames |-> <<>>]
  /\ pivot_files = [v \in VarNames |-> NoPivot]
  /\ annual_files = <<>>
  /\ df_ret = <<>>
  /\ df_50 = <<>>
  /\ log = <<>>
  /\ progress = <<>>
  /\ run = 1
  /\ first_run = NoRun
  /\ left_over = {}

runs == <<run, first_run, left_over>>
inputs == <<site_config, return_periods_arg, dataframes_arg, site_files, gumbel_fit>>
tables == <<df_stats, skipped_sources, df_cov, summary_files, pivot_files,
            annual_files, df_ret, df_50>>

\* lines 183-213: thresholds, return periods, output folder
Configure ==
  /\ pc = "start"
  /\ LET rp == resolve_return_periods(return_periods_arg, site_config)
     IN /\ bc_mean_threshold' =
             get_config_float(site_config, "building_code_windspeed_mean_50y",
                              DEFAULT_BC_THRESHOLD)
        /\ bc_gust_threshold' =
             get_config_float(site_config, "building_code_windspeed_gust_50y",
                              DEFAULT_BC_THRESHOLD)
        /\ return_periods_years' = rp.value
        /\ output_dir' = ~rp.raised
        /\ pc' = IF rp.raised THEN "raised" ELSE "load"
  /\ UNCHANGED <<inputs, runs, dataframes, tables, log, progress>>

\* lines 215-272: the source collection
LoadData ==
  /\ pc = "load"
  /\ progress' = Append(progress, "load")
  /\ \E r \in load_data(dataframes_arg, site_files) :
       /\ dataframes' = r.dataframes
       /\ log' = log \o r.printed
       /\ pc' = IF r.stopped THEN "stopped" ELSE "stats"
  /\ UNCHANGED <<inputs, runs, bc_mean_threshold, bc_gust_threshold, return_periods_years,
                 output_dir, tables>>

WriteStats(r) ==
  /\ df_stats' = r.stats_rows
  /\ skipped_sources' = r.skipped_sources

\* lines 274-330
DescriptiveStats ==
  /\ pc = "stats"
  /\ progress' = Append(progress, "stats")
  /\ WriteStats(descriptive_stats(dataframes))
  /\ pc' = "coverage"
  /\ UNCHANGED <<inputs, runs, bc_mean_threshold, bc_gust_threshold, return_periods_years,
                 output_dir, dataframes, df_cov, summary_files, pivot_files,
                 annual_files, df_ret, df_50, log>>

\* lines 332-377
Coverage ==
  /\ pc = "coverage"
  /\ progress' = Append(progress, "coverage")
  /\ df_cov' = coverage(dataframes)
  /\ pc' = "plots"
  /\ UNCHANGED <<inputs, runs, bc_mean_threshold, bc_gust_threshold, return_periods_years,
                 output_dir, dataframes, df_stats, skipped_sources, summary_files,
                 pivot_files, annual_files, df_ret, df_50, log>>

\* lines 379-729: histograms, boxplots, time series and wind roses (figures only)
Plots ==
  /\ pc = "plots"
  /\ progress' = Append(progress, "plots")
  /\ pc' = "extreme_mean"
  /\ UNCHANGED <<inputs, runs, bc_mean_threshold, bc_gust_threshold, return_periods_years,
                 output_dir, dataframes, tables, log>>

\* lines 802-833: the two tables of one variable
WriteExtreme(varname, r) ==
  /\ summary_files' = [summary_files EXCEPT ![varname] = r.summary]
  /\ pivot_files' = [pivot_files EXCEPT ![varname] = r.pivot]

\* lines 835-840
ExtremeDaysMean ==
  /\ pc = "extreme_mean"
  /\ progress' = Append(progress, "extreme_mean")
  /\ WriteExtreme("windspeed_mean",
                  analyze_extreme_days(dataframes, "windspeed_mean", bc_mean_threshold))
  /\ dataframes' = after_extreme_days(dataframes, "windspeed_mean")
  /\ pc' = "extreme_gust"
  /\ UNCHANGED <<inputs, runs, bc_mean_threshold, bc_gust_threshold, return_periods_years,
                 output_dir, df_stats, skipped_sources, df_cov,
                 annual_files, df_ret, df_50, log>>

\* lines 842-847
ExtremeDaysGust ==
  /\ pc = "extreme_gust"
  /\ progress' = Append(progress, "extreme_gust")
  /\ WriteExtreme("windspeed_gust",
                  analyze_extreme_days(dataframes, "windspeed_gust", bc_gust_threshold))
  /\ dataframes' = after_extreme_days(dataframes, "windspeed_gust")
  /\ pc' = "return_levels"
  /\ UNCHANGED <<inputs, runs, bc_mean_threshold, bc_gust_threshold, return_periods_years,
                 output_dir, df_stats, skipped_sources, df_cov,
                 annual_files, df_ret, df_50, log>>

escapes(rows) == \E k \in 1..Len(rows) : rows[k].Return_level = Raised

WriteTables(r, escaped) ==
  /\ annual_files' = LET Written(a) == a.table # <<>> IN SelectSeq(r.annual, Written)
  /\ log' = log \o r.printed
  /\ df_ret' = IF escaped THEN <<>> ELSE r.rows
  /\ df_50' = IF escaped THEN <<>> ELSE rows_50y(r.rows, return_periods_years)
  /\ pc' = IF escaped THEN "raised" ELSE "done"

WriteReturnLevels(r) == WriteTables(r, escapes(r.rows))

\* lines 849-929: an exception leaving compute_return_level ends the run
\* before return_periods_gumbel.csv is written
ReturnLevels ==
  /\ pc = "return_levels"
  /\ progress' = Append(progress, "return_levels")
  /\ WriteReturnLevels(return_levels(dataframes, return_periods_years,
                                     bc_mean_threshold, bc_gust_threshold, gumbel_fit))
  /\ UNCHANGED <<inputs, runs, bc_mean_threshold, bc_gust_threshold, return_periods_years,
                 output_dir, dataframes, df_stats, skipped_sources, df_cov,
                 summary_files, pivot_files>>

\* the table files the call has written so far, each named by its kind, its
\* variable and its source
Written ==
  {<<"stats_windspeed_mean", "", "">> : x \in IF df_stats # <<>> THEN {1} ELSE {}}
    \cup {<<"resume_qualite", "", "">> : x \in IF df_cov # <<>> THEN {1} ELSE {}}
    \cup {<<"extremes_resume", v, "">> : v \in {w \in VarNames : summary_files[w] # <<>>}}
    \cup {<<"extremes_par_an", v, "">> : v \in {w \in VarNames : pivot_files[w].written}}
    \cup {<<"annual_max", annual_files[k].Variable, annual_files[k].Source>> :
            k \in {j \in 1..Len(annual_files) : annual_files[j].table # <<>>}}
    \cup {<<"return_periods_gumbel", "", "">> : x \in IF df_ret # <<>> THEN {1} ELSE {}}
    \cup {<<"return_period_50y", "", "">> : x \in IF df_50 # <<>> THEN {1} ELSE {}}

\* a second call of run_analysis_for_site with the same arguments, on the
\* same site folder: the locals start afresh, the output directory is there
Restart ==
  /\ pc \in {"done", "stopped"}
  /\ run = 1
  /\ run' = 2
  /\ first_run' = [dataframes |-> dataframes, tables |-> tables]
  /\ pc' = "start"
  /\ bc_mean_threshold' = NULL
  /\ bc_gust_threshold' = NULL
  /\ return_periods_years' = <<>>
  /\ dataframes' = <<>>
  /\ df_stats' = <<>>
  /\ skipped_sources' = <<>>
  /\ df_cov' = <<>>
  /\ summary_files' = [v \in VarNames |-> <<>>]
  /\ pivot_files' = [v \in VarNames |-> NoPivot]
  /\ annual_files' = <<>>
  /\ df_ret' = <<>>
  /\ df_50' = <<>>
  /\ log' = <<>>
  /\ progress' = <<>>
  /\ left_over' = left_over \cup Written
  /\ UNCHANGED <<inputs, output_dir>>

\* a second call on the same site folder with the same tables and building
\* code thresholds of 99 m/s
RestartOtherThresholds ==
  /\ pc \in {"done", "stopped"}
  /\ run = 1
  /\ run' = 3
  /\ site_config' = HighConfig
  /\ first_run' = [dataframes |-> dataframes, tables |-> tables]
  /\ pc' = "start"
  /\ bc_mean_threshold' = NULL
  /\ bc_gust_threshold' = NULL
  /\ return_periods_years' = <<>>
  /\ dataframes' = <<>>
  /\ df_stats' = <<>>
  /\ skipped_sources' = <<>>
  /\ df_cov' = <<>>
  /\ summary_files' = [v \in VarNames |-> <<>>]
  /\ pivot_files' = [v \in VarNames |-> NoPivot]
  /\ annual_files' = <<>>
  /\ df_ret' = <<>>
  /\ df_50' = <<>>
  /\ log' = <<>>
  /\ progress' = <<>>
  /\ left_over' = left_over \cup Written
  /\ UNCHANGED <<return_periods_arg, dataframes_arg, site_files, gumbel_fit, output_dir>>

Next ==
  \/ Configure
  \/ LoadData
  \/ DescriptiveStats
  \/ Coverage
  \/ Plots
  \/ ExtremeDaysMean
  \/ ExtremeDaysGust
  \/ ReturnLevels
  \/ Restart
  \/ RestartOtherThresholds

Spec == Init /\ [][Next]_vars

\* ------------------------------------------------- the helpers on their own
\* _normalize_dataframe_columns applied to one raw table, and
\* _load_dataframes_from_csv applied to one folder.

\* a raw table of the given columns: row k has the k-th time and date, and a
\* value of its own in each wind column
RawTable(cols, times, dates) ==
  DataFrame(cols,
    [k \in 1..Len(times) |->
       [c \in cols |->
          CASE c = "time" -> times[k]
            [] c = "date" -> dates[k]
            [] c = "wind_speed" -> 10 + k
            [] c = "windspeed_mean" -> 20 + k
            [] c = "wind_gust" -> 30 + k
            [] c = "windspeed_gust" -> 40 + k]])

\* unsorted times with two equal ones, unparsable and missing times
RawTimes ==
  { <<2001002, 2001001, 2001002>>, <<BAD, 2001002, 2001001>>,
    <<2001003, NULL, 2001001>>, <<2001001, 2001001>>, <<BAD>> }

\* the dates of a raw table run against its times
RawDates(times) == [k \in 1..Len(times) |-> 2002010 - k]

RawCols ==
  { T \cup S \cup G :
      T \in {{}, {"time"}, {"date"}, {"time", "date"}},
      S \in {{}, {"wind_speed"}, {"windspeed_mean"}, {"wind_speed", "windspeed_mean"}},
      G \in {{}, {"wind_gust"}, {"windspeed_gust"}, {"wind_gust", "windspeed_gust"}} }

RawTables == {RawTable(cols, t, RawDates(t)) : cols \in RawCols \ {{}}, t \in RawTimes}

\* files of a site folder: recognised stems with overlapping prefixes, an
\* hourly era5 file, a file of another kind, an unreadable file
FilePool ==
  { File(<<"noaa", "_station1", "_site">>, TRUE, TRUE, SmallTable),
    File(<<"noaa", "_station2", "_site">>, TRUE, TRUE, TiedTable),
    File(<<"noaa", "_site">>, TRUE, TRUE, DataFrame(FullCols, <<Row(2001005, 20, 21)>>)),
    File(<<"noaa", "_site">>, TRUE, FALSE, SmallTable),
    File(<<"era5", "_daily", "_site">>, TRUE, TRUE, SmallTable),
    File(<<"era5", "_site">>, TRUE, TRUE, SmallTable),
    File(<<"meteostat", "1", "_site">>, TRUE, TRUE,
         DataFrame(FullCols, <<Row(2001007, 22, 23)>>)),
    File(<<"notes">>, TRUE, TRUE, SmallTable),
    File(<<"openmeteo", "_site">>, FALSE, TRUE, SmallTable) }

RawFolders == UNION {[1..n -> FilePool] : n \in 1..2}

FnInit ==
  /\ \/ /\ dataframes_arg \in {<<Entry("raw", t)>> : t \in RawTables}
        /\ site_files = <<>>
     \/ /\ dataframes_arg = <<>>
        /\ site_files \in RawFolders
  /\ site_config = DefaultConfig
  /\ return_periods_arg = NoArg
  /\ gumbel_fit = <<>>
  /\ pc = "given"
  /\ bc_mean_threshold = NULL
  /\ bc_gust_threshold = NULL
  /\ return_periods_years = <<>>
  /\ output_dir = FALSE
  /\ dataframes = <<>>
  /\ df_stats = <<>>
  /\ skipped_sources = <<>>
  /\ df_cov = <<>>
  /\ summary_files = [v \in VarNames |-> <<>>]
  /\ pivot_files = [v \in VarNames |-> NoPivot]
  /\ annual_files = <<>>
  /\ df_ret = <<>>
  /\ df_50 = <<>>
  /\ log = <<>>
  /\ progress = <<>>
  /\ run = 1
  /\ first_run = NoRun
  /\ left_over = {}

\* lines 90-118: _normalize_dataframe_columns(df)
Normalize ==
  /\ pc = "given"
  /\ dataframes_arg # <<>>
  /\ \E n \in normalize_dataframe_columns(dataframes_arg[1].df) :
       dataframes' = <<Entry(dataframes_arg[1].name, n)>>
  /\ pc' = "normalized"
  /\ UNCHANGED <<inputs, runs, bc_mean_threshold, bc_gust_threshold,
                 return_periods_years, output_dir, tables, log, progress>>

\* lines 121-164: _load_dataframes_from_csv(site_folder)
Discover ==
  /\ pc = "given"
  /\ dataframes_arg = <<>>
  /\ dataframes' \in load_dataframes_from_csv(site_files)
  /\ log' = csv_prints(site_files)
  /\ pc' = "discovered"
  /\ UNCHANGED <<inputs, runs, bc_mean_threshold, bc_gust_threshold,
                 return_periods_years, output_dir, tables, progress>>

FnNext == Normalize \/ Discover

FnSpec == FnInit /\ [][FnNext]_vars

\* ------------------------------------------------------------ properties
\* The properties read the written tables against the assembled collection,
\* with their own reading of a table.

Threshold(v) == IF v = "windspeed_mean" THEN bc_mean_threshold ELSE bc_gust_threshold

TableOf(name) ==
  dataframes[CHOOSE i \in 1..Len(dataframes) : dataframes[i].name = name].df

\* the rows with a time and a value of v
Valid(df, v) ==
  IF {"time", v} \subseteq df.cols
    THEN {i \in 1..Len(df.rows) : df.rows[i]["time"] # NULL /\ df.rows[i][v] # NULL}
  ELSE {}

Exceeding(df, v) == {i \in Valid(df, v) : df.rows[i][v] > Threshold(v)}

YearOfRow(df, i) == df.rows[i]["time"] \div 1000

YearsOf(df, v) == {YearOfRow(df, i) : i \in Valid(df, v)}

RowsOf(tbl, name, v) == {k \in 1..Len(tbl) : tbl[k].Source = name /\ tbl[k].Variable = v}

RECURSIVE Sum(_, _)
Sum(f, S) ==
  IF S = {} THEN 0
  ELSE LET x == CHOOSE y \in S : TRUE IN f[x] + Sum(f, S \ {x})

Sources == {dataframes[i].name : i \in 1..Len(dataframes)}

\* C1: every row of the extreme-day summary of a variable reports, for its
\* source, the number of days strictly above the threshold, the largest of
\* their values and the date of the first row holding it; 0 and empty fields
\* when no day exceeds
C1_SummaryRow(v, r) ==
  LET df == TableOf(r.Source)
      E == Exceeding(df, v)
  IN /\ r.Variable = v
     /\ r.BC_threshold = Threshold(v)
     /\ r.Nb_extreme_days = Cardinality(E)
     /\ E = {} => r.Max_extreme_value = NULL /\ r.Date_max_value = NULL
     /\ E # {} =>
          /\ \E i \in E : df.rows[i][v] = r.Max_extreme_value
          /\ \A i \in E : df.rows[i][v] <= r.Max_extreme_value
          /\ \E i \in E :
               /\ df.rows[i][v] = r.Max_extreme_value
               /\ \A j \in E : df.rows[j][v] = r.Max_extreme_value => i <= j
               /\ r.Date_max_value = df.rows[i]["time"]

C1_ExtremeSummary ==
  \A v \in VarNames :
    \A k \in 1..Len(summary_files[v]) : C1_SummaryRow(v, summary_files[v][k])

\* a summary row counting two days above the threshold while a third day at
\* the threshold is left out, the maximum being held by two days
C1_Witness ==
  /\ pc = "done"
  /\ \E k \in 1..Len(summary_files["windspeed_mean"]) :
       LET r == summary_files["windspeed_mean"][k]
           df == TableOf(r.Source)
       IN /\ r.Nb_extreme_days = 2
          /\ r.Max_extreme_value = 30
          /\ r.Date_max_value = 2001002
          /\ \E i \in Valid(df, "windspeed_mean") :
               df.rows[i]["windspeed_mean"] = Threshold("windspeed_mean")
          /\ Cardinality({i \in Valid(df, "windspeed_mean") :
                            df.rows[i]["windspeed_mean"] = 30}) = 2

\* C2: the per-year table of a variable has its years ascending, each cell
\* is the number of exceeding days of the source in the year (0 where none),
\* and a source's column sums to the Nb_extreme_days of its summary row
C2_Pivot(v) ==
  LET p == pivot_files[v]
      count(name, y) ==
        Cardinality({i \in Exceeding(TableOf(name), v) : YearOfRow(TableOf(name), i) = y})
  IN /\ p.written =>
          /\ \A i, j \in 1..Len(p.Year) : i < j => p.Year[i] < p.Year[j]
          /\ \A y \in Range(p.Year) : \A name \in p.Source :
               p.cell[y][name] = count(name, y)
     /\ \A k \in 1..Len(summary_files[v]) :
          LET r == summary_files[v][k]
          IN IF p.written /\ r.Source \in p.Source
               THEN Sum([y \in Range(p.Year) |-> p.cell[y][r.Source]], Range(p.Year))
                      = r.Nb_extreme_days
             ELSE r.Nb_extreme_days = 0

C2_PerYearMatrix == \A v \in VarNames : C2_Pivot(v)

\* a matrix of two sources and three years with a zero cell
C2_Witness ==
  /\ pc = "done"
  /\ LET p == pivot_files["windspeed_mean"]
     IN /\ p.written
        /\ Cardinality(p.Source) = 2
        /\ Len(p.Year) = 3
        /\ \E y \in Range(p.Year) : \E name \in p.Source : p.cell[y][name] = 0
        /\ \E y \in Range(p.Year) : \E name \in p.Source : p.cell[y][name] > 0

\* C3 as stated: every source of the collection without a day above the
\* threshold has a summary row with count 0 and empty maximum and date
C3_EverySourceHasRow ==
  pc = "done" =>
    \A name \in Sources : \A v \in VarNames :
      Exceeding(TableOf(name), v) = {} =>
        \E k \in 1..Len(summary_files[v]) :
          /\ summary_files[v][k].Source = name
          /\ summary_files[v][k].Nb_extreme_days = 0
          /\ summary_files[v][k].Max_extreme_value = NULL
          /\ summary_files[v][k].Date_max_value = NULL

\* C3 amended: a source has exactly one summary row for a variable when it
\* has a row with a time and a value of the variable, and none otherwise; the
\* row of a source without a day above the threshold has count 0 and empty
\* maximum and date
C3_ZeroExceedanceRow ==
  pc = "done" =>
    \A name \in Sources : \A v \in VarNames :
      LET rows == {k \in 1..Len(summary_files[v]) : summary_files[v][k].Source = name}
      IN /\ Valid(TableOf(name), v) = {} => rows = {}
         /\ Valid(TableOf(name), v) # {} => Cardinality(rows) = 1
         /\ Valid(TableOf(name), v) # {} /\ Exceeding(TableOf(name), v) = {} =>
              \A k \in rows :
                /\ summary_files[v][k].Nb_extreme_days = 0
                /\ summary_files[v][k].Max_extreme_value = NULL
                /\ summary_files[v][k].Date_max_value = NULL

\* a source with days, none above the threshold, beside a source with some
C3_Witness ==
  /\ pc = "done"
  /\ \E a, b \in Sources :
       /\ Valid(TableOf(a), "windspeed_mean") # {}
       /\ Exceeding(TableOf(a), "windspeed_mean") = {}
       /\ Exceeding(TableOf(b), "windspeed_mean") # {}
       /\ Len(summary_files["windspeed_mean"]) = 2

\* ---- return levels

Years(r) == Cardinality(YearsOf(TableOf(r.Source), r.Variable))

TooShort(printed) == {k \in 1..Len(printed) : printed[k] = "Series too short"}

\* the fit of the series of a row of the return-level table
FitOf(r) ==
  LET df == TableOf(r.Source)
      ys == SortedSet(YearsOf(df, r.Variable))
      MaxIn(y) ==
        CHOOSE m \in {df.rows[i][r.Variable] : i \in Valid(df, r.Variable)} :
          /\ \E i \in Valid(df, r.Variable) :
               YearOfRow(df, i) = y /\ df.rows[i][r.Variable] = m
          /\ \A i \in Valid(df, r.Variable) :
               YearOfRow(df, i) = y => df.rows[i][r.Variable] <= m
  IN gumbel_fit[[k \in 1..Len(ys) |-> MaxIn(ys[k])]]

\* C4 as stated: below min_years the level is absent for every period and a
\* warning is printed for each; from min_years on no period is blocked
C4_GateWarnsBelowMinimum ==
  pc = "done" =>
    /\ \A k \in 1..Len(df_ret) : Years(df_ret[k]) < min_years_default =>
         df_ret[k].Return_level = None
    /\ Cardinality(TooShort(log))
         = Cardinality({k \in 1..Len(df_ret) : Years(df_ret[k]) < min_years_default})

\* C4 amended: below min_years the level is absent for every period, with a
\* warning for each when the series has a value (none when it has no value at
\* all); from min_years on no warning is printed and a fit that succeeds
\* gives a number for every period above 1
C4_MinYearsGate ==
  pc = "done" =>
    /\ \A k \in 1..Len(df_ret) : Years(df_ret[k]) < min_years_default =>
         df_ret[k].Return_level = None
    /\ Cardinality(TooShort(log))
         = Cardinality({k \in 1..Len(df_ret) :
                          Years(df_ret[k]) >= 1 /\ Years(df_ret[k]) < min_years_default})
    /\ \A k \in 1..Len(df_ret) :
         (/\ Years(df_ret[k]) >= min_years_default
          /\ ~FitOf(df_ret[k]).raises
          /\ df_ret[k].Return_period > 10) => df_ret[k].Return_level.kind = "num"

\* a series of 9 years blocked beside a series of exactly 10 years that is not
C4_Witness ==
  /\ pc = "done"
  /\ \E j, k \in 1..Len(df_ret) :
       /\ Years(df_ret[j]) = min_years_default - 1
       /\ df_ret[j].Return_level = None
       /\ Years(df_ret[k]) = min_years_default
       /\ df_ret[k].Return_level.kind = "num"
  /\ TooShort(log) # {}

\* C5: a series with a value has its annual maxima exported, fit or no fit:
\* one row per calendar year of its values, ascending, holding the largest
\* value of the year; a series without a value has no such table
C5_Series(name, v) ==
  LET df == TableOf(name)
      files == {k \in 1..Len(annual_files) :
                  annual_files[k].Source = name /\ annual_files[k].Variable = v}
  IN IF Valid(df, v) = {} THEN files = {}
     ELSE /\ Cardinality(files) = 1
          /\ \A f \in files :
               LET t == annual_files[f].table
               IN /\ Len(t) = Cardinality(YearsOf(df, v))
                  /\ \A k \in 1..Len(t) : t[k].Year \in YearsOf(df, v)
                  /\ \A j, k \in 1..Len(t) : j < k => t[j].Year < t[k].Year
                  /\ \A k \in 1..Len(t) :
                       /\ \E i \in Valid(df, v) :
                            YearOfRow(df, i) = t[k].Year /\ df.rows[i][v] = t[k].Max_value
                       /\ \A i \in Valid(df, v) :
                            YearOfRow(df, i) = t[k].Year => df.rows[i][v] <= t[k].Max_value

C5_AnnualMaxima ==
  pc = "done" => \A name \in Sources : \A v \in VarNames : C5_Series(name, v)

\* the table of a series of 7 years (no fit) with two days in one year, and
\* the table of a series whose fit failed
C5_Witness ==
  /\ pc = "done"
  /\ \E f \in 1..Len(annual_files) :
       /\ Len(annual_files[f].table) = 7
       /\ Cardinality(Valid(TableOf(annual_files[f].Source), annual_files[f].Variable)) = 8
  /\ \E f \in 1..Len(annual_files) : \E k \in 1..Len(df_ret) :
       /\ df_ret[k].Source = annual_files[f].Source
       /\ df_ret[k].Variable = annual_files[f].Variable
       /\ Years(df_ret[k]) >= min_years_default
       /\ FitOf(df_ret[k]).raises

\* C6: for a return period T <= 1 on a series that passes the gate, the level
\* is absent
C6_InvalidPeriodAbsent ==
  pc = "done" =>
    \A k \in 1..Len(df_ret) :
      (/\ Years(df_ret[k]) >= min_years_default
       /\ df_ret[k].Return_period # NULL
       /\ df_ret[k].Return_period <= 10) => df_ret[k].Return_level = None

\* C7: for one series, the levels of two periods above 1 are both absent or
\* both numbers, and the longer period has the level that is not smaller
C7_Monotone ==
  \A j, k \in 1..Len(df_ret) :
    (/\ df_ret[j].Source = df_ret[k].Source
     /\ df_ret[j].Variable = df_ret[k].Variable
     /\ df_ret[j].Return_period > 10
     /\ df_ret[j].Return_period < df_ret[k].Return_period) =>
      /\ df_ret[j].Return_level.kind = df_ret[k].Return_level.kind
      /\ df_ret[j].Return_level.kind \in {"None", "num"}
      /\ df_ret[j].Return_level.v <= df_ret[k].Return_level.v

\* levels for 2, 50 and 100 years that grow with the period
C7_Witness ==
  /\ pc = "done"
  /\ \E i, j, k \in 1..Len(df_ret) :
       /\ df_ret[i].Source = df_ret[j].Source /\ df_ret[j].Source = df_ret[k].Source
       /\ df_ret[i].Variable = df_ret[j].Variable /\ df_ret[j].Variable = df_ret[k].Variable
       /\ df_ret[i].Return_period = 20
       /\ df_ret[j].Return_period = 500
       /\ df_ret[k].Return_period = 1000
       /\ df_ret[i].Return_level.kind = "num"
       /\ df_ret[i].Return_level.v < df_ret[j].Return_level.v
       /\ df_ret[j].Return_level.v < df_ret[k].Return_level.v

\* the level a series gets on its own
LevelAlone(r) ==
  IF Years(r) < min_years_default THEN None
  ELSE IF FitOf(r).raises THEN None
  ELSE IF r.Return_period > 10
    THEN Level(round_ratio(FitOf(r).loc * 10000
                             + FitOf(r).scale * reduced_variate(r.Return_period), 10000))
  ELSE IF r.Return_period = 10 THEN NegInf
  ELSE IF r.Return_period = 0 THEN None
  ELSE NaNLevel

FitFails(r) == Years(r) >= min_years_default /\ FitOf(r).raises

\* C8: a fit that fails leaves no exception to the caller (no exception
\* ends a run that has created its output directory), its series has an
\* absent level for every period, and every row of the table is the level its
\* own series gives
C8_FitFailureContained ==
  /\ pc = "raised" => ~output_dir
  /\ pc = "done" =>
       \A k \in 1..Len(df_ret) :
         /\ FitFails(df_ret[k]) => df_ret[k].Return_level = None
         /\ df_ret[k].Return_level = LevelAlone(df_ret[k])

\* a fit that failed for one source beside the level of another source
C8_Witness ==
  /\ pc = "done"
  /\ \E j, k \in 1..Len(df_ret) :
       /\ df_ret[j].Source # df_ret[k].Source
       /\ FitFails(df_ret[j])
       /\ df_ret[j].Return_level = None
       /\ df_ret[k].Return_level.kind = "num"

Occurrences(seq, x) == Cardinality({k \in 1..Len(seq) : seq[k] = x})

RowsFor(name, v, T) ==
  {k \in 1..Len(df_ret) :
     df_ret[k].Source = name /\ df_ret[k].Variable = v /\ df_ret[k].Return_period = T}

\* C9 as stated: one row for every source, variable and requested period
C9_OneRowPerCombination ==
  pc = "done" =>
    \A name \in Sources : \A v \in VarNames : \A T \in Range(return_periods_years) :
      Cardinality(RowsFor(name, v, T)) = 1

\* C9 amended: the table has one row for every source with a time column,
\* every variable the source has a column for and every entry of the list of
\* requested periods (a period listed twice has two rows), with an absent
\* level when none could be produced, and no other row
C9_RowPerSeriesAndPeriod ==
  pc = "done" =>
    /\ \A name \in Sources : \A v \in VarNames : \A T \in Range(return_periods_years) :
         Cardinality(RowsFor(name, v, T))
           = IF {"time", v} \subseteq TableOf(name).cols
               THEN Occurrences(return_periods_years, T) ELSE 0
    /\ \A k \in 1..Len(df_ret) :
         /\ df_ret[k].Source \in Sources
         /\ df_ret[k].Variable \in VarNames
         /\ df_ret[k].Return_period \in Range(return_periods_years)

\* three periods for a source of 7 years: three rows with an absent level
C9_Witness ==
  /\ pc = "done"
  /\ Len(return_periods_years) = 3
  /\ \E name \in Sources :
       /\ Cardinality(YearsOf(TableOf(name), "windspeed_mean")) = 7
       /\ Cardinality(RowsOf(df_ret, name, "windspeed_mean")) = 3
       /\ \A k \in RowsOf(df_ret, name, "windspeed_mean") : df_ret[k].Return_level = None

\* C10: once the source collection is not empty, every step of the run leads
\* from a stage to the stage that follows it, down to the end of the run: no
\* stage stops the run or leaves an exception
C10_RunCompletes ==
  [][/\ pc = "stats" => pc' = "coverage"
     /\ pc = "coverage" => pc' = "plots"
     /\ pc = "plots" => pc' = "extreme_mean"
     /\ pc = "extreme_mean" => pc' = "extreme_gust"
     /\ pc = "extreme_gust" => pc' = "return_levels"
     /\ pc = "return_levels" => pc' = "done"]_vars

\* the end of a run over a source skipped by the statistics, a variable
\* without column, a series too short and a fit that failed
C10_Witness ==
  /\ pc = "done"
  /\ skipped_sources # <<>>
  /\ \E name \in Sources : "windspeed_gust" \notin TableOf(name).cols
  /\ \E k \in 1..Len(df_ret) : FitFails(df_ret[k])
  /\ TooShort(log) # {}

\* ---- the source collection

Stages ==
  {"stats", "coverage", "plots", "extreme_mean", "extreme_gust", "return_levels", "done"}

Usable(df) == df.kind = "DataFrame" /\ df.rows # <<>> /\ df.cols # {}

Unusable(arg) == {i \in 1..Len(arg) : ~Usable(arg[i].df)}

UnreadableFiles ==
  {i \in 1..Len(site_files) : site_files[i].is_csv /\ ~site_files[i].readable}

C12_EmptyIsNoOp ==
  pc = "stopped" =>
    /\ ~output_dir
    /\ df_stats = <<>> /\ df_cov = <<>> /\ df_ret = <<>> /\ df_50 = <<>>
    /\ annual_files = <<>>
    /\ \A v \in VarNames : summary_files[v] = <<>> /\ ~pivot_files[v].written

\* ---- configuration

\* a configured value that is a number
Parsed(c) == c.kind = "num"

\* a configured list of return periods in which every element is a number
ParsedPeriods(c) ==
  /\ c.kind \in {"str", "list"}
  /\ \E k \in 1..Len(c.items) : c.items[k].t # "blank"
  /\ \A k \in 1..Len(c.items) : c.items[k].t \in {"num", "blank"}

NumbersOf(c) ==
  LET IsNum(x) == x.t = "num"
      kept == SelectSeq(c.items, IsNum)
  IN [k \in 1..Len(kept) |-> kept[k].v]

\* C13: the configuration never raises; a threshold that is missing, NaN or
\* not a number is 25.0, and return periods of the configuration that are
\* missing or not all numbers are [50.0]
C13_ConfigFallback ==
  /\ pc # "raised"
  /\ pc # "start" =>
       /\ bc_mean_threshold =
            IF Parsed(site_config["building_code_windspeed_mean_50y"])
              THEN site_config["building_code_windspeed_mean_50y"].v ELSE 25
       /\ bc_gust_threshold =
            IF Parsed(site_config["building_code_windspeed_gust_50y"])
              THEN site_config["building_code_windspeed_gust_50y"].v ELSE 25
       /\ return_periods_arg.kind = "None" =>
            return_periods_years =
              IF ParsedPeriods(site_config["return_periods_years"])
                THEN NumbersOf(site_config["return_periods_years"]) ELSE <<500>>

\* ---- coverage

AfterCoverage == {"plots", "extreme_mean", "extreme_gust", "return_levels", "done"}

\* the rows of a table that have a time
TimeRows(df) ==
  IF "time" \in df.cols THEN {i \in 1..Len(df.rows) : df.rows[i]["time"] # NULL} ELSE {}

\* p is the percentage, in tenths of a percent, of the rows of R with a value
\* of column c, or the missing value when the table has no column c
IsCoverage(p, df, R, c) ==
  IF c \notin df.cols THEN p = NULL
  ELSE /\ p # NULL
       /\ LET k == Cardinality({i \in R : df.rows[i][c] # NULL})
              e == p * Cardinality(R) - 1000 * k
          IN 2 * e <= Cardinality(R) /\ -2 * e <= Cardinality(R)

\* C14: in every coverage row each of the two percentages is the missing
\* value (with the column absent) or a number from 0 to 100
C14_CoverageRange ==
  \A k \in 1..Len(df_cov) :
    LET r == df_cov[k]
        df == TableOf(r.Source)
    IN /\ \/ r.Mean_wind_coverage = NULL /\ "windspeed_mean" \notin df.cols
          \/ r.Mean_wind_coverage >= 0 /\ r.Mean_wind_coverage <= 1000
       /\ \/ r.Gust_coverage = NULL /\ "windspeed_gust" \notin df.cols
          \/ r.Gust_coverage >= 0 /\ r.Gust_coverage <= 1000

\* a missing percentage beside percentages of 0 and of 100
C14_Witness ==
  /\ pc \in AfterCoverage
  /\ \E j, k \in 1..Len(df_cov) :
       /\ df_cov[j].Gust_coverage = NULL
       /\ df_cov[k].Mean_wind_coverage = 0
       /\ df_cov[k].Gust_coverage = 1000

\* C15: a source with a row that has a time has exactly one coverage row:
\* Row count is the number of rows with a time, First and Last date the
\* smallest and the largest time, each percentage 100 times the share of the
\* rows with a time that have a value (0 for a column entirely null, the
\* missing value for a column that is absent); any other source has no row
C15_Source(name) ==
  LET df == TableOf(name)
      R == TimeRows(df)
      rows == {k \in 1..Len(df_cov) : df_cov[k].Source = name}
  IN IF R = {} THEN rows = {}
     ELSE /\ Cardinality(rows) = 1
          /\ \A k \in rows :
               /\ df_cov[k].Row_count = Cardinality(R)
               /\ \E i \in R : df.rows[i]["time"] = df_cov[k].First_date
               /\ \E i \in R : df.rows[i]["time"] = df_cov[k].Last_date
               /\ \A i \in R : /\ df_cov[k].First_date <= df.rows[i]["time"]
                                /\ df.rows[i]["time"] <= df_cov[k].Last_date
               /\ IsCoverage(df_cov[k].Mean_wind_coverage, df, R, "windspeed_mean")
               /\ IsCoverage(df_cov[k].Gust_coverage, df, R, "windspeed_gust")

C15_CoverageRow == pc \in AfterCoverage => \A name \in Sources : C15_Source(name)

\* three rows, one without time: 2 rows counted, one of them with a gust
C15_Witness ==
  /\ pc \in AfterCoverage
  /\ \E k \in 1..Len(df_cov) :
       /\ Len(TableOf(df_cov[k].Source).rows) = 3
       /\ df_cov[k].Row_count = 2
       /\ df_cov[k].First_date < df_cov[k].Last_date
       /\ df_cov[k].Mean_wind_coverage = 1000
       /\ df_cov[k].Gust_coverage = 500

\* ---- descriptive statistics

AfterStats == AfterCoverage \cup {"coverage"}

\* the values of windspeed_mean of a table
MeanValues(df) ==
  IF "windspeed_mean" \in df.cols
    THEN {i \in 1..Len(df.rows) : df.rows[i]["windspeed_mean"] # NULL}
  ELSE {}

\* C16: every source is in the statistics table exactly once, when it has at
\* least 5 values of windspeed_mean, or in the skipped list exactly once,
\* when it has fewer; never in both and never in neither, and nothing else
\* is in either
C16_StatsPartition ==
  pc \in AfterStats =>
    /\ \A name \in Sources :
         LET n == Cardinality(MeanValues(TableOf(name)))
             rows == {k \in 1..Len(df_stats) : df_stats[k].Source = name}
             skips == {k \in 1..Len(skipped_sources) : skipped_sources[k] = name}
         IN IF n >= 5
              THEN /\ Cardinality(rows) = 1 /\ skips = {}
                   /\ \A k \in rows : df_stats[k].count = n
            ELSE rows = {} /\ Cardinality(skips) = 1
    /\ \A k \in 1..Len(df_stats) : df_stats[k].Source \in Sources
    /\ \A k \in 1..Len(skipped_sources) : skipped_sources[k] \in Sources

\* a source of exactly 5 values in the table beside a skipped source
C16_Witness ==
  /\ pc \in AfterStats
  /\ \E k \in 1..Len(df_stats) : df_stats[k].count = 5
  /\ skipped_sources # <<>>

\* ---- two calls

IsPrefix(a, b) == Len(a) <= Len(b) /\ SubSeq(b, 1, Len(a)) = a

Position(name) == CHOOSE i \in 1..Len(dataframes) : dataframes[i].name = name

\* the rows of the return-level table follow the sources in the order of the
\* collection, the mean before the gust for a source, and the requested
\* periods in their order for a series
ReturnRowsInOrder ==
  /\ \A j, k \in 1..Len(df_ret) : j < k =>
       /\ Position(df_ret[j].Source) <= Position(df_ret[k].Source)
       /\ df_ret[j].Source = df_ret[k].Source =>
            ~(df_ret[j].Variable = "windspeed_gust" /\ df_ret[k].Variable = "windspeed_mean")
  /\ \A name \in Sources : \A v \in VarNames :
       LET Mine(r) == r.Source = name /\ r.Variable = v
           mine == SelectSeq(df_ret, Mine)
       IN mine # <<>> => [k \in 1..Len(mine) |-> mine[k].Return_period] = return_periods_years

\* the tables a stage writes are there only once the stage has been entered
WrittenAfterEntered ==
  /\ (df_stats # <<>> \/ skipped_sources # <<>>) => "stats" \in Range(progress)
  /\ df_cov # <<>> => "coverage" \in Range(progress)
  /\ summary_files["windspeed_mean"] # <<>> => "extreme_mean" \in Range(progress)
  /\ summary_files["windspeed_gust"] # <<>> => "extreme_gust" \in Range(progress)
  /\ (df_ret # <<>> \/ annual_files # <<>>) => "return_levels" \in Range(progress)

HasRow(tbl, name) == \E k \in 1..Len(tbl) : tbl[k].Source = name

\* C19: a source skipped by the statistics is treated by every later stage
\* like any other: it has its coverage row when a row has a time (with a mean
\* coverage of 0 when its windspeed_mean is entirely null), its extreme-day
\* row for a variable when a row has a time and a value, its annual maxima
\* and its return-level rows
C19_SkippedStillProcessed ==
  pc = "done" =>
    \A n \in 1..Len(skipped_sources) :
      LET name == skipped_sources[n]
          df == TableOf(name)
      IN /\ TimeRows(df) # {} => HasRow(df_cov, name)
         /\ (TimeRows(df) # {} /\ "windspeed_mean" \in df.cols /\ MeanValues(df) = {}) =>
              \A k \in 1..Len(df_cov) :
                df_cov[k].Source = name => df_cov[k].Mean_wind_coverage = 0
         /\ \A v \in VarNames :
              /\ Valid(df, v) # {} =>
                   /\ HasRow(summary_files[v], name)
                   /\ \E f \in 1..Len(annual_files) :
                        annual_files[f].Source = name /\ annual_files[f].Variable = v
              /\ ({"time", v} \subseteq df.cols /\ return_periods_years # <<>>) =>
                   RowsOf(df_ret, name, v) # {}

\* a source with dates and a windspeed_mean entirely null: skipped by the
\* statistics, with a mean coverage of 0 and an extreme-day row for the gust
C19_Witness ==
  /\ pc = "done"
  /\ \E n \in 1..Len(skipped_sources) :
       LET name == skipped_sources[n]
       IN /\ "windspeed_mean" \in TableOf(name).cols
          /\ MeanValues(TableOf(name)) = {}
          /\ \E k \in 1..Len(df_cov) :
               df_cov[k].Source = name /\ df_cov[k].Mean_wind_coverage = 0
          /\ HasRow(summary_files["windspeed_gust"], name)
  /\ df_stats # <<>>

\* ---- the collection is read only

Undated == {name \in Sources : TimeRows(TableOf(name)) = {}}

\* C21: every coverage row is the row of a source that has a time column
\* with a time in at least one row, and counts at least one row; a source
\* without a time column, or without any parsable time, has no coverage row
C21_CoverageNeedsTime ==
  pc \in AfterCoverage =>
    /\ \A k \in 1..Len(df_cov) :
         /\ df_cov[k].Source \in Sources \ Undated
         /\ "time" \in TableOf(df_cov[k].Source).cols
         /\ df_cov[k].Row_count >= 1
    /\ \A name \in Undated : \A k \in 1..Len(df_cov) : df_cov[k].Source # name

\* a source without a time column beside a source with dates: one coverage
\* row, that of the second
C21_Witness ==
  /\ pc \in AfterCoverage
  /\ \E name \in Undated : "time" \notin TableOf(name).cols
  /\ Len(dataframes) = 2
  /\ Len(df_cov) = 1

\* ---- _normalize_dataframe_columns on one table

\* the ways to match the rows of a table of n rows with those of another
Matchings(n) == {f \in [1..n -> 1..n] : \A i, j \in 1..n : f[i] = f[j] => i = j}

\* what a raw time or date value is once parsed
ParsedTime(v) == IF v = BAD \/ v = NULL THEN NULL ELSE v

\* C22: the time of every row of the result is the parsed value of the time
\* field of a row of the input when the input has a time field (whether or not
\* it has a date field, which is left as it is), else the parsed value of its
\* date field; an input with neither field is returned as it is, same
\* columns, same rows in the same order; the input table is not changed
C22_TimeResolution ==
  [][(pc = "given" /\ pc' = "normalized") =>
       LET raw == dataframes_arg[1].df
           out == dataframes'[1].df
           src == IF "time" \in raw.cols THEN "time" ELSE "date"
       IN /\ dataframes_arg' = dataframes_arg
          /\ IF {"time", "date"} \cap raw.cols = {} THEN out = raw
             ELSE /\ "time" \in out.cols
                  /\ Len(out.rows) = Len(raw.rows)
                  /\ \E f \in Matchings(Len(raw.rows)) :
                       \A k \in 1..Len(raw.rows) :
                         /\ out.rows[k]["time"] = ParsedTime(raw.rows[f[k]][src])
                         /\ "date" \in raw.cols =>
                              /\ "date" \in out.cols
                              /\ out.rows[k]["date"] = raw.rows[f[k]]["date"]]_vars

\* a table with a time field and a date field: the first row of the result
\* has the smallest time, which is the time of the row of the smallest date
C22_Witness ==
  /\ pc = "normalized"
  /\ {"time", "date"} \subseteq dataframes_arg[1].df.cols
  /\ Len(dataframes[1].df.rows) = 3
  /\ dataframes[1].df.rows[1]["time"] = 2001001
  /\ dataframes[1].df.rows[1]["date"] = 2002007
  /\ dataframes[1].df.rows[3]["time"] = NULL

\* the generic field of a canonical wind column
AliasOf(c) == IF c = "windspeed_mean" THEN "wind_speed" ELSE "wind_gust"

\* the column of the input whose values column c of the result must hold
OriginOf(raw, c) ==
  IF c \in VarNames /\ c \notin raw.cols THEN AliasOf(c) ELSE c

\* C23: for each of the two canonical wind columns on its own: when the input
\* has the canonical column, the result holds it with the values of the
\* input, and a generic field beside it stays under its own name with its own
\* values; the generic field becomes the canonical column, and disappears
\* under its own name, only when the input has no canonical column; no other
\* column appears
C23_CanonicalPrecedence ==
  pc = "normalized" =>
    LET raw == dataframes_arg[1].df
        out == dataframes[1].df
    IN /\ \A c \in VarNames :
            /\ c \in raw.cols => c \in out.cols /\ (AliasOf(c) \in out.cols <=> AliasOf(c) \in raw.cols)
            /\ (c \in out.cols /\ c \notin raw.cols) =>
                 AliasOf(c) \in raw.cols /\ AliasOf(c) \notin out.cols
            /\ (AliasOf(c) \in raw.cols /\ AliasOf(c) \notin out.cols) => c \notin raw.cols
       /\ out.cols \subseteq raw.cols \cup {"time"} \cup VarNames
       /\ Len(out.rows) = Len(raw.rows)
       /\ \E f \in Matchings(Len(raw.rows)) :
            \A k \in 1..Len(raw.rows) :
              \A c \in out.cols \ {"time"} :
                out.rows[k][c] = raw.rows[f[k]][OriginOf(raw, c)]

\* a table with wind_speed alone and with both wind_gust and windspeed_gust:
\* the result has the mean from wind_speed and keeps both gust columns
C23_Witness ==
  /\ pc = "normalized"
  /\ dataframes_arg[1].df.cols = {"time", "wind_speed", "wind_gust", "windspeed_gust"}
  /\ dataframes[1].df.cols = {"time", "windspeed_mean", "wind_gust", "windspeed_gust"}
  /\ \E k \in 1..Len(dataframes[1].df.rows) :
       /\ dataframes[1].df.rows[k]["windspeed_mean"] = 12
       /\ dataframes[1].df.rows[k]["wind_gust"] = 32
       /\ dataframes[1].df.rows[k]["windspeed_gust"] = 42

\* f matches the rows of the result with the rows of the input they come from
ComesFrom(raw, out, f) ==
  LET src == IF "time" \in raw.cols THEN "time" ELSE "date"
  IN \A k \in 1..Len(out.rows) :
       /\ out.rows[k]["time"] = ParsedTime(raw.rows[f[k]][src])
       /\ \A c \in out.cols \ {"time"} : out.rows[k][c] = raw.rows[f[k]][OriginOf(raw, c)]

\* the rows with a time come first, by ascending time
AscendingByTime(out) ==
  \A j, k \in 1..Len(out.rows) : j < k =>
    \/ out.rows[k]["time"] = NULL
    \/ out.rows[j]["time"] # NULL /\ out.rows[j]["time"] <= out.rows[k]["time"]

\* C24: the result of the normalization of a table with a time (or date)
\* field holds the rows of the input, each once, the rows with a time first
\* and by ascending time, and two rows of equal time (or both without time)
\* in the order they have in the input
C24_StableSort ==
  (pc = "normalized" /\ {"time", "date"} \cap dataframes_arg[1].df.cols # {}) =>
    LET raw == dataframes_arg[1].df
        out == dataframes[1].df
    IN /\ Len(out.rows) = Len(raw.rows)
       /\ AscendingByTime(out)
       /\ \E f \in Matchings(Len(raw.rows)) :
            /\ ComesFrom(raw, out, f)
            /\ \A j, k \in 1..Len(out.rows) :
                 (j < k /\ out.rows[j]["time"] = out.rows[k]["time"]) => f[j] < f[k]

\* ---- one row per day

\* C25: in every table of the collection seen by the stages no two rows have
\* the same time
C25_UniqueTimes ==
  pc \in Stages =>
    \A name \in Sources :
      \A i, j \in TimeRows(TableOf(name)) :
        TableOf(name).rows[i]["time"] = TableOf(name).rows[j]["time"] => i = j

\* ---- _load_dataframes_from_csv on one folder

\* the recognised prefixes a stem starts with
PrefixesOf(stem) ==
  {i \in 1..Len(prefix_mappings) :
     /\ Len(prefix_mappings[i][1]) <= Len(stem)
     /\ \A k \in 1..Len(prefix_mappings[i][1]) : stem[k] = prefix_mappings[i][1][k]}

\* the key of the longest recognised prefix of a stem
LongestKey(stem) ==
  prefix_mappings[CHOOSE i \in PrefixesOf(stem) :
                    \A j \in PrefixesOf(stem) :
                      Len(prefix_mappings[j][1]) <= Len(prefix_mappings[i][1])][2]

\* the files of the folder that are CSV files with a recognised prefix
Recognised == {i \in 1..Len(site_files) :
                 site_files[i].is_csv /\ PrefixesOf(site_files[i].stem) # {}}

\* C26: the keys of the mapping returned for a folder are the keys of the
\* longest recognised prefix of each readable CSV file with a recognised
\* prefix, each key once, bound to the normalized table of the last such file
\* in the listing; a file without a recognised prefix adds nothing; a file that
\* cannot be read adds an error line and nothing else, whatever its place
C26_LongestPrefix ==
  pc = "discovered" =>
    LET Read == {i \in Recognised : site_files[i].readable}
    IN /\ Sources = {LongestKey(site_files[i].stem) : i \in Read}
       /\ Cardinality(Sources) = Len(dataframes)
       /\ \A i \in Read :
            (\A j \in Read : LongestKey(site_files[j].stem) = LongestKey(site_files[i].stem)
                               => j <= i)
              => TableOf(LongestKey(site_files[i].stem))
                   \in normalize_dataframe_columns(site_files[i].df)
       /\ Len(log) = Cardinality(Recognised \ Read)

\* a folder listing an unreadable noaa file before a noaa_station1 file: the
\* mapping has the key noaa_station1 alone, beside one error line
C26_Witness ==
  /\ pc = "discovered"
  /\ Len(site_files) = 2
  /\ ~site_files[1].readable
  /\ site_files[2].stem = <<"noaa", "_station1", "_site">>
  /\ Sources = {"noaa_station1"}
  /\ Len(log) = 1

\* ---- the output folder after several calls

\* C27: when a call ends, every table file of the output folder has been
\* written by this call: no file left by an earlier call is there without
\* having been written again
C27_NoLeftOver ==
  pc \in {"done", "stopped"} => left_over \subseteq Written

\* ---- the tables of one run against each other

\* no extreme-day row of a source counts more days than its coverage row
ExtremeDaysWithinCoverage ==
  \A c \in 1..Len(df_cov) : \A v \in VarNames : \A e \in 1..Len(summary_files[v]) :
    summary_files[v][e].Source = df_cov[c].Source =>
      summary_files[v][e].Nb_extreme_days <= df_cov[c].Row_count

\* C28: at the end of a run, for every source with a statistics row and a
\* coverage row the count of the statistics is at most the Row count of the
\* coverage, and for every source with an extreme-day row and a coverage row
\* Nb_extreme_days is at most the Row count
C28_TablesConsistent ==
  pc = "done" =>
    /\ \A c \in 1..Len(df_cov) : \A s \in 1..Len(df_stats) :
         df_stats[s].Source = df_cov[c].Source => df_stats[s].count <= df_cov[c].Row_count
    /\ ExtremeDaysWithinCoverage

\* ---- the daily file of era5

\* the files era5_daily_<site>.csv of the site folder
DailyFiles == {i \in 1..Len(site_files) :
                 site_files[i].stem = <<"era5", "_daily", "_site">> /\ site_files[i].is_csv}

\* the tables given for era5 in memory that pass the filters of the assembly
ProvidedEra5 ==
  {dataframes_arg[i].df : i \in {j \in 1..Len(dataframes_arg) :
                                   dataframes_arg[j].name = "era5" /\ Usable(dataframes_arg[j].df)}}

\* C29: with a usable table given for era5 and a file era5_daily_<site>.csv
\* in the folder: when the file can be read and has rows, the stages see for
\* era5 the normalized table of the file; when it can be read and has no
\* row, the collection has no era5; when it cannot be read, the stages see
\* the normalized table given, an error line is printed and the run goes on;
\* with the tables discovered from the folder, era5 is the table of the file
C29_DailyFileWins ==
  /\ (pc \in Stages /\ ProvidedEra5 # {} /\ DailyFiles # {}) =>
       \A i \in DailyFiles :
         IF ~site_files[i].readable
           THEN /\ "era5" \in Sources
                /\ \E t \in ProvidedEra5 : TableOf("era5") \in normalize_dataframe_columns(t)
                /\ "Error reading daily file" \in Range(log)
         ELSE IF Usable(site_files[i].df)
           THEN /\ "era5" \in Sources
                /\ TableOf("era5") \in normalize_dataframe_columns(site_files[i].df)
         ELSE "era5" \notin Sources
  /\ (pc \in Stages /\ dataframes_arg = <<>>) =>
       \A i \in DailyFiles :
         site_files[i].readable =>
           IF Usable(site_files[i].df)
             THEN /\ "era5" \in Sources
                  /\ TableOf("era5") \in normalize_dataframe_columns(site_files[i].df)
           ELSE "era5" \notin Sources

\* a finished run given eleven rows for era5 beside a daily file of two
\* rows: the collection holds the two rows of the file
C29_Witness ==
  /\ pc = "done"
  /\ \E t \in ProvidedEra5 : Len(t.rows) = 11
  /\ \E i \in DailyFiles : site_files[i].readable /\ Len(site_files[i].df.rows) = 2
  /\ "era5" \in Sources
  /\ Len(TableOf("era5").rows) = 2
  /\ df_cov # <<>>

\* ---- where the tables come from

\* the names given in memory with a table that passes the filters
GivenUsable == {dataframes_arg[i].name : i \in {j \in 1..Len(dataframes_arg) :
                                                  Usable(dataframes_arg[j].df)}}

\* the keys of the readable CSV files of the folder with a recognised prefix
FoundKeys == {LongestKey(site_files[i].stem) : i \in {j \in Recognised : site_files[j].readable}}

\* once the collection is assembled: without a mapping its sources are keys
\* found in the folder; with a non-empty mapping they are names of usable
\* entries of the mapping, each of them but era5 with its normalized table
\* and era5 with it or with the daily file, and no key of the folder is added;
\* a non-empty mapping without a usable entry stops the run before any stage,
\* with an empty collection and no table written
SelectionHolds ==
  /\ (pc \in Stages /\ dataframes_arg = <<>>) => Sources \subseteq FoundKeys
  /\ (pc \in Stages /\ dataframes_arg # <<>>) =>
       /\ Sources \subseteq GivenUsable
       /\ GivenUsable \ {"era5"} \subseteq Sources
       /\ \A i \in 1..Len(dataframes_arg) :
            (dataframes_arg[i].name \in Sources \ {"era5"} /\ Usable(dataframes_arg[i].df)) =>
              TableOf(dataframes_arg[i].name)
                \in normalize_dataframe_columns(dataframes_arg[i].df)
  /\ (dataframes_arg # <<>> /\ GivenUsable = {} /\ pc \notin {"start", "load", "raised"}) =>
       /\ pc = "stopped"
       /\ dataframes = <<>>
       /\ Written = {}
       /\ progress = <<"load">>

\* C30: the tables come from the folder exactly when no mapping, or an empty
\* one, is given; a non-empty mapping is the only origin of the sources even
\* when none of its entries is usable, and the run then ends as a no-op:
\* nothing has been created, the output directory included
C30_SourceSelection ==
  /\ SelectionHolds
  /\ (dataframes_arg # <<>> /\ GivenUsable = {} /\ pc = "stopped") => ~output_dir

====
